---- MODULE Spec2Model ----
(***************************************************************************)
(* Model of the plan/apply diff renderer of terraform-execution-summary    *)
(* (src/image/src/terraform_execution_summary/__main__.py): the value      *)
(* renderer (render_string, render_bool, render_none, render_dict,         *)
(* render_list), the recursive comparator compare_values and the           *)
(* resource-change loop parse_changes.                                     *)
(*                                                                         *)
(* Text is a sequence of one-character strings, so that concatenation,     *)
(* length, indexing and substring search are the ones of Python's str.     *)
(* A JSON value is a tagged record:                                        *)
(*   [t |-> "null"]            None                                        *)
(*   [t |-> "bool", v |-> b]   True / False                                *)
(*   [t |-> "int",  v |-> n]   an integer                                  *)
(*   [t |-> "str",  v |-> s]   a str, s a sequence of characters           *)
(*   [t |-> "list", v |-> xs]  a list, xs a sequence of values             *)
(*   [t |-> "dict", v |-> kv]  a dict, kv a sequence of <<key, value>>     *)
(*                             pairs in insertion order, keys distinct     *)
(***************************************************************************)
EXTENDS Integers, Sequences, FiniteSets, TLC

VARIABLES pc, args, result, emitted, idx, written

vars == <<pc, args, result, emitted, idx, written>>

-----------------------------------------------------------------------------
(* Characters and text                                                     *)

\* The printable ASCII characters in code-point order, 32 (space) to 126 (~);
\* code point 96 has no string literal here and is held by a placeholder.
ASCII_PRINTABLE ==
  << " ", "!", "\"", "#", "$", "%", "&", "'", "(", ")", "*", "+", ",", "-",
     ".", "/", "0", "1", "2", "3", "4", "5", "6", "7", "8", "9", ":", ";",
     "<", "=", ">", "?", "@", "A", "B", "C", "D", "E", "F", "G", "H", "I",
     "J", "K", "L", "M", "N", "O", "P", "Q", "R", "S", "T", "U", "V", "W",
     "X", "Y", "Z", "[", "\\", "]", "^", "_", "(backtick)", "a", "b", "c", "d", "e",
     "f", "g", "h", "i", "j", "k", "l", "m", "n", "o", "p", "q", "r", "s",
     "t", "u", "v", "w", "x", "y", "z", "{", "|", "}", "~" >>

\* ord(c): the code point of a character (newline is 10).
Ord(c) ==
  IF c = "\n" THEN 10
  ELSE 31 + (CHOOSE i \in 1..Len(ASCII_PRINTABLE) : ASCII_PRINTABLE[i] = c)

\* str.lower() on one character: A..Z (65..90) map to a..z.
LowerChar(c) ==
  IF c # "\n" /\ Ord(c) >= 65 /\ Ord(c) <= 90
  THEN ASCII_PRINTABLE[Ord(c) + 32 - 31]
  ELSE c

\* str.lower()
Lower(s) == [i \in 1..Len(s) |-> LowerChar(s[i])]

DIGITS == <<"0", "1", "2", "3", "4", "5", "6", "7", "8", "9">>

IsDigit(c) == \E i \in 1..10 : DIGITS[i] = c

DigitVal(c) == (CHOOSE i \in 1..10 : DIGITS[i] = c) - 1

RECURSIVE NatToChars(_)
\* str(n) for n >= 0
NatToChars(n) ==
  IF n < 10 THEN <<DIGITS[n + 1]>>
  ELSE NatToChars(n \div 10) \o <<DIGITS[(n % 10) + 1]>>

\* str(n) for an int
IntToChars(n) == IF n < 0 THEN <<"-">> \o NatToChars(0 - n) ELSE NatToChars(n)

RECURSIVE CharsToNat(_)
\* int(s) for a non-empty run of digits
CharsToNat(s) ==
  IF Len(s) = 0 THEN 0
  ELSE 10 * CharsToNat(SubSeq(s, 1, Len(s) - 1)) + DigitVal(s[Len(s)])

\* s in t (substring test of str)
Contains(t, s) ==
  \E i \in 0..(Len(t) - Len(s)) : SubSeq(t, i + 1, i + Len(s)) = s

\* t.endswith(s)
EndsWith(t, s) ==
  /\ Len(t) >= Len(s)
  /\ SubSeq(t, Len(t) - Len(s) + 1, Len(t)) = s

\* c * n for a one-character text
Repeat(c, n) == [i \in 1..n |-> c]

\* a < b for two str (lexicographic by code point)
StrLess(a, b) ==
  \E i \in 1..(Len(b)) :
     /\ i <= Len(a) + 1
     /\ \A j \in 1..(i - 1) : a[j] = b[j]
     /\ (i = Len(a) + 1 \/ Ord(a[i]) < Ord(b[i]))

-----------------------------------------------------------------------------
(* JSON values                                                             *)

Null == [t |-> "null"]
B(b) == [t |-> "bool", v |-> b]
N(n) == [t |-> "int", v |-> n]
S(s) == [t |-> "str", v |-> s]
L(xs) == [t |-> "list", v |-> xs]
D(kv) == [t |-> "dict", v |-> kv]

\* key in d, for a dict d and a str key
DictHas(d, k) == \E i \in 1..Len(d.v) : d.v[i][1] = k

\* d[key]
DictGet(d, k) == d.v[CHOOSE i \in 1..Len(d.v) : d.v[i][1] = k][2]

\* d[key] = val of a dict under construction: the first insertion keeps its
\* position, the last value wins.
DictSet(kv, k, val) ==
  IF \E i \in 1..Len(kv) : kv[i][1] = k
  THEN [i \in 1..Len(kv) |-> IF kv[i][1] = k THEN <<k, val>> ELSE kv[i]]
  ELSE Append(kv, <<k, val>>)

\* The number a bool or an int stands for in a Python comparison.
NumOf(x) == IF x.t = "bool" THEN (IF x.v THEN 1 ELSE 0) ELSE x.v

IsNum(x) == x.t \in {"bool", "int"}

RECURSIVE PyEq(_, _)
\* a == b of Python on JSON values: True == 1 and False == 0, lists compare
\* element by element, dicts by key set and value per key.
PyEq(a, b) ==
  IF IsNum(a) /\ IsNum(b) THEN NumOf(a) = NumOf(b)
  ELSE IF a.t # b.t THEN FALSE
  ELSE IF a.t = "null" THEN TRUE
  ELSE IF a.t = "str" THEN a.v = b.v
  ELSE IF a.t = "list"
       THEN /\ Len(a.v) = Len(b.v)
            /\ \A i \in 1..Len(a.v) : PyEq(a.v[i], b.v[i])
  ELSE /\ Len(a.v) = Len(b.v)
       /\ \A i \in 1..Len(a.v) :
             /\ DictHas(b, a.v[i][1])
             /\ PyEq(a.v[i][2], DictGet(b, a.v[i][1]))

\* x is True
IsTrue(x) == x.t = "bool" /\ x.v

\* bool(x): the truth value of a value in an `if`
Truthy(x) ==
  CASE x.t = "null" -> FALSE
    [] x.t = "bool" -> x.v
    [] x.t = "int" -> x.v # 0
    [] OTHER -> Len(x.v) > 0

-----------------------------------------------------------------------------
(* json.loads on a str                                                     *)
(* The decoder covers the JSON grammar over the characters the inputs      *)
(* below are written in: the literals null, true and false, integer        *)
(* literals, strings without escape sequences, arrays, objects, and        *)
(* spaces between tokens. A text outside that grammar is a decode error.   *)

ParseFail == [ok |-> FALSE, val |-> Null, next |-> 0]

\* The whitespace of JSON among the characters of the model.
IsWs(c) == c \in {" ", "\n"}

\* The index of the first character at or after i that is not whitespace
\* (Len(s) + 1 when there is none).
SkipWs(s, i) ==
  CHOOSE j \in i..(Len(s) + 1) :
     /\ \A k \in i..(j - 1) : IsWs(s[k])
     /\ (j = Len(s) + 1 \/ ~IsWs(s[j]))

\* The index just after the run of digits that starts at i.
DigitsEnd(s, i) ==
  CHOOSE j \in i..(Len(s) + 1) :
     /\ \A k \in i..(j - 1) : IsDigit(s[k])
     /\ (j = Len(s) + 1 \/ ~IsDigit(s[j]))

\* An integer literal at i: 0, or a run of digits not starting with 0.
ParseNat(s, i) ==
  IF s[i] = "0"
  THEN [ok |-> TRUE, val |-> N(0), next |-> i + 1]
  ELSE LET j == DigitsEnd(s, i)
       IN [ok |-> TRUE, val |-> N(CharsToNat(SubSeq(s, i, j - 1))), next |-> j]

\* A string literal whose opening quote is at i: up to the next quote; a
\* control character inside it is a decode error.
ParseStr(s, i) ==
  IF \E j \in (i + 1)..Len(s) : s[j] = "\""
  THEN LET j == CHOOSE j \in (i + 1)..Len(s) :
                   /\ s[j] = "\""
                   /\ \A k \in (i + 1)..(j - 1) : s[k] # "\""
       IN IF \E k \in (i + 1)..(j - 1) : s[k] = "\n"
          THEN ParseFail
          ELSE [ok |-> TRUE, val |-> S(SubSeq(s, i + 1, j - 1)), next |-> j + 1]
  ELSE ParseFail

IsLit(s, i, lit) ==
  /\ i + Len(lit) - 1 <= Len(s)
  /\ SubSeq(s, i, i + Len(lit) - 1) = lit

RECURSIVE ParseValueAt(_, _)
RECURSIVE ParseArrayRest(_, _, _)
RECURSIVE ParseObjectRest(_, _, _)

\* The JSON value that starts at index i of s.
ParseValueAt(s, i) ==
  IF i > Len(s) THEN ParseFail
  ELSE IF IsLit(s, i, <<"n", "u", "l", "l">>)
       THEN [ok |-> TRUE, val |-> Null, next |-> i + 4]
  ELSE IF IsLit(s, i, <<"t", "r", "u", "e">>)
       THEN [ok |-> TRUE, val |-> B(TRUE), next |-> i + 4]
  ELSE IF IsLit(s, i, <<"f", "a", "l", "s", "e">>)
       THEN [ok |-> TRUE, val |-> B(FALSE), next |-> i + 5]
  ELSE IF IsDigit(s[i]) THEN ParseNat(s, i)
  ELSE IF s[i] = "-"
       THEN IF i + 1 <= Len(s) /\ IsDigit(s[i + 1])
            THEN LET r == ParseNat(s, i + 1)
                 IN [ok |-> TRUE, val |-> N(0 - r.val.v), next |-> r.next]
            ELSE ParseFail
  ELSE IF s[i] = "\"" THEN ParseStr(s, i)
  ELSE IF s[i] = "["
       THEN LET j == SkipWs(s, i + 1)
            IN IF j <= Len(s) /\ s[j] = "]"
               THEN [ok |-> TRUE, val |-> L(<<>>), next |-> j + 1]
               ELSE ParseArrayRest(s, j, <<>>)
  ELSE IF s[i] = "{"
       THEN LET j == SkipWs(s, i + 1)
            IN IF j <= Len(s) /\ s[j] = "}"
               THEN [ok |-> TRUE, val |-> D(<<>>), next |-> j + 1]
               ELSE ParseObjectRest(s, j, <<>>)
  ELSE ParseFail

\* The elements of an array from index i (an element is expected there),
\* acc the elements read so far.
ParseArrayRest(s, i, acc) ==
  LET r == ParseValueAt(s, i)
  IN IF ~r.ok THEN ParseFail
     ELSE LET j == SkipWs(s, r.next)
          IN IF j > Len(s) THEN ParseFail
             ELSE IF s[j] = "]"
                  THEN [ok |-> TRUE, val |-> L(Append(acc, r.val)), next |-> j + 1]
             ELSE IF s[j] = ","
                  THEN ParseArrayRest(s, SkipWs(s, j + 1), Append(acc, r.val))
             ELSE ParseFail

\* The members of an object from index i (a key is expected there), acc the
\* pairs read so far.
ParseObjectRest(s, i, acc) ==
  IF i > Len(s) \/ s[i] # "\"" THEN ParseFail
  ELSE LET k == ParseStr(s, i)
       IN IF ~k.ok THEN ParseFail
          ELSE LET c == SkipWs(s, k.next)
               IN IF c > Len(s) \/ s[c] # ":" THEN ParseFail
                  ELSE LET r == ParseValueAt(s, SkipWs(s, c + 1))
                       IN IF ~r.ok THEN ParseFail
                          ELSE LET j == SkipWs(s, r.next)
                                   kv == DictSet(acc, k.val.v, r.val)
                               IN IF j > Len(s) THEN ParseFail
                                  ELSE IF s[j] = "}"
                                       THEN [ok |-> TRUE, val |-> D(kv), next |-> j + 1]
                                  ELSE IF s[j] = ","
                                       THEN ParseObjectRest(s, SkipWs(s, j + 1), kv)
                                  ELSE ParseFail

\* json.loads(x) inside `try: ... except (TypeError, JSONDecodeError): pass`:
\* the decoded value when x is a str holding one JSON document, x otherwise.
json_loads(x) ==
  IF x.t # "str" THEN x
  ELSE LET r == ParseValueAt(x.v, SkipWs(x.v, 1))
       IN IF r.ok /\ SkipWs(x.v, r.next) = Len(x.v) + 1 THEN r.val ELSE x

-----------------------------------------------------------------------------
(* Module constants                                                        *)

\* SPECIAL_CHARACTERS_REGEX = re.compile(r"[@!#$%^&*()<>?/\|}{~:]")
\* Inside the character class the two characters \| are an escaped "|": the
\* class holds 19 characters and the backslash is not one of them.
SPECIAL_CHARACTERS ==
  {"@", "!", "#", "$", "%", "^", "&", "*", "(", ")", "<", ">", "?", "/",
   "|", "}", "{", "~", ":"}

\* SPECIAL_CHARACTERS_REGEX.search(s) is not None
HasSpecial(s) == \E i \in 1..Len(s) : s[i] \in SPECIAL_CHARACTERS

\* SENSITIVE_KEYS = ["auth", "pass", "token", "jwt", "secret"]
SENSITIVE_KEYS ==
  << <<"a", "u", "t", "h">>, <<"p", "a", "s", "s">>,
     <<"t", "o", "k", "e", "n">>, <<"j", "w", "t">>,
     <<"s", "e", "c", "r", "e", "t">> >>

\* PARSING_LIBRARY[...]["symbol"]
SYMBOL_ADD == <<"+">>
SYMBOL_UPDATE == <<"~">>
SYMBOL_DELETE == <<"-">>

SENSITIVE_DATA ==
  <<"(", "S", "e", "n", "s", "i", "t", "i", "v", "e", " ", "D", "a", "t",
    "a", ")">>

KNOWN_AFTER_APPLY ==
  <<"(", "K", "n", "o", "w", "n", " ", "A", "f", "t", "e", "r", " ", "A",
    "p", "p", "l", "y", ")">>

HIDDEN_LARGE_VALUE ==
  <<"(", "H", "i", "d", "d", "e", "n", " ", "L", "a", "r", "g", "e", " ",
    "V", "a", "l", "u", "e", ")">>

\* " -> (Forces Replacement)"
FORCES_REPLACEMENT ==
  <<" ", "-", ">", " ", "(", "F", "o", "r", "c", "e", "s", " ", "R", "e",
    "p", "l", "a", "c", "e", "m", "e", "n", "t", ")">>

\* The length above which render_string hides a string.
LARGE_VALUE_LENGTH == 1000

NL == <<"\n">>
ARROW == <<" ", "-", ">", " ">>
EQUALS == <<" ", "=", " ">>

\* Two spaces per level.
Tabs_TwoSpaces(level) == Repeat(" ", 2 * level)

\* "   " * indention_level
Tabs(level) == Repeat(" ", 3 * level)

-----------------------------------------------------------------------------
(* The value renderer                                                      *)

\* A string written without the surrounding double quotes.
render_string_Unquoted(data) ==
  IF Len(data) > LARGE_VALUE_LENGTH THEN HIDDEN_LARGE_VALUE ELSE data

render_string(data) ==
  IF Len(data) > LARGE_VALUE_LENGTH
  THEN HIDDEN_LARGE_VALUE
  ELSE <<"\"">> \o data \o <<"\"">>

render_bool(data) ==
  IF data THEN <<"t", "r", "u", "e">> ELSE <<"f", "a", "l", "s", "e">>

render_none == <<"n", "u", "l", "l">>

\* A key of a mapping as render_dict writes it.
KeyRendered(key) ==
  IF HasSpecial(key) THEN <<"\"">> \o key \o <<"\"">> ELSE key

RECURSIVE render_dict(_, _, _)
RECURSIVE render_list(_, _, _)
RECURSIVE RenderValue(_, _)

\* The type dispatch shared by render_dict, render_list and compare_values:
\* the text of one value, containers opened without a leading indent.
RenderValue(value, level) ==
  CASE value.t = "dict" -> render_dict(value, FALSE, level)
    [] value.t = "list" -> render_list(value, FALSE, level)
    [] value.t = "str" -> render_string(value.v)
    [] value.t = "bool" -> render_bool(value.v)
    [] value.t = "null" -> render_none
    [] OTHER -> IntToChars(value.v)

RECURSIVE RenderDictItems(_, _, _)
\* The `for key, value in data.items()` loop of render_dict from item i.
RenderDictItems(data, i, level) ==
  IF i > Len(data.v) THEN <<>>
  ELSE Tabs(level + 1) \o KeyRendered(data.v[i][1]) \o EQUALS
         \o RenderValue(data.v[i][2], level + 1) \o NL
         \o RenderDictItems(data, i + 1, level)

render_dict(data, start_with_indention, indention_level) ==
  LET tabs == Tabs(indention_level)
      lead == IF start_with_indention THEN tabs ELSE <<>>
  IN IF Len(data.v) = 0 THEN lead \o <<"{", "}">>
     ELSE lead \o <<"{", "\n">> \o RenderDictItems(data, 1, indention_level)
            \o tabs \o <<"}">>

RECURSIVE RenderListItems(_, _, _)
\* The `for value in data` loop of render_list from item i.
RenderListItems(data, i, level) ==
  IF i > Len(data.v) THEN <<>>
  ELSE Tabs(level + 1) \o RenderValue(data.v[i], level + 1) \o NL
         \o RenderListItems(data, i + 1, level)

render_list(data, start_with_indention, indention_level) ==
  LET tabs == Tabs(indention_level)
      lead == IF start_with_indention THEN tabs ELSE <<>>
  IN IF Len(data.v) = 0 THEN lead \o <<"[", "]">>
     ELSE lead \o <<"[", "\n">> \o RenderListItems(data, 1, indention_level)
            \o tabs \o <<"]">>

-----------------------------------------------------------------------------
(* The structural comparator                                               *)

\* An attribute is a mapping key, S(key), or a list index, N(index).

\* before.keys() / [*range(0, len(before), 1)] / []
KeysOf(x) ==
  CASE x.t = "dict" -> [i \in 1..Len(x.v) |-> S(x.v[i][1])]
    [] x.t = "list" -> [i \in 1..Len(x.v) |-> N(i - 1)]
    [] OTHER -> <<>>

\* The order of the attributes written as text: "10" sorts before "2".
AttrLess_AsText(a, b) ==
  StrLess(IF a.t = "int" THEN IntToChars(a.v) ELSE a.v,
          IF b.t = "int" THEN IntToChars(b.v) ELSE b.v)

\* a < b as sorted() compares two attributes of one type
AttrLess(a, b) == IF a.t = "int" THEN a.v < b.v ELSE StrLess(a.v, b.v)

RECURSIVE SortAttrs(_)
\* sorted(list(set)) of attributes of one type: ascending, smallest first.
SortAttrs(set) ==
  IF set = {} THEN <<>>
  ELSE LET m == CHOOSE x \in set : \A y \in set \ {x} : AttrLess(x, y)
       IN <<m>> \o SortAttrs(set \ {m})

\* set([*before_keys, *after_keys])
AttributeSet(before, after) ==
  LET bk == KeysOf(before)
      ak == KeysOf(after)
  IN {bk[i] : i \in 1..Len(bk)} \cup {ak[i] : i \in 1..Len(ak)}

\* sorted() raises TypeError when the set mixes list indices and str keys.
SortRaises(set) == \E a \in set : \E b \in set : a.t # b.t

\* container[attribute] inside `try: ... except (TypeError, KeyError,
\* IndexError)`: ok is FALSE when one of the three is raised.
GetItem(container, attribute) ==
  CASE container.t = "dict" ->
         IF attribute.t = "str" /\ DictHas(container, attribute.v)
         THEN [ok |-> TRUE, val |-> DictGet(container, attribute.v)]
         ELSE [ok |-> FALSE, val |-> Null]
    [] container.t = "list" ->
         IF attribute.t = "int" /\ attribute.v < Len(container.v)
         THEN [ok |-> TRUE, val |-> container.v[attribute.v + 1]]
         ELSE [ok |-> FALSE, val |-> Null]
    [] container.t = "str" ->
         IF attribute.t = "int" /\ attribute.v < Len(container.v)
         THEN [ok |-> TRUE, val |-> S(<<container.v[attribute.v + 1]>>)]
         ELSE [ok |-> FALSE, val |-> Null]
    [] OTHER -> [ok |-> FALSE, val |-> Null]

\* after_value: after[attribute], else after_unknown[attribute], else None
AfterValue(after, after_unknown, attribute) ==
  LET a == GetItem(after, attribute)
      u == GetItem(after_unknown, attribute)
  IN IF a.ok THEN a.val ELSE IF u.ok THEN u.val ELSE Null

\* attribute in map and (map[attribute] is True or map[attribute] == [True]),
\* for a map that is a dict
MarkedTrue(map, attribute) ==
  /\ attribute.t = "str"
  /\ DictHas(map, attribute.v)
  /\ \/ IsTrue(DictGet(map, attribute.v))
     \/ PyEq(DictGet(map, attribute.v), L(<<B(TRUE)>>))

\* str(attribute)
AttrStr(attribute) ==
  IF attribute.t = "int" THEN IntToChars(attribute.v) ELSE attribute.v

\* The name rule without the lower() of line 267.
SensitiveName_CaseSensitive(attribute) ==
  \E i \in 1..Len(SENSITIVE_KEYS) :
     Contains(AttrStr(attribute), SENSITIVE_KEYS[i])

\* any(check in str(attribute).lower() for check in SENSITIVE_KEYS)
SensitiveName(attribute) ==
  \E i \in 1..Len(SENSITIVE_KEYS) :
     Contains(Lower(AttrStr(attribute)), SENSITIVE_KEYS[i])

\* attribute in replace_paths: ok is FALSE when it raises TypeError
PyIn(attribute, c) ==
  CASE c.t = "list" ->
         [ok |-> TRUE, val |-> \E i \in 1..Len(c.v) : PyEq(c.v[i], attribute)]
    [] c.t = "dict" ->
         [ok |-> TRUE, val |-> attribute.t = "str" /\ DictHas(c, attribute.v)]
    [] c.t = "str" ->
         IF attribute.t = "str"
         THEN [ok |-> TRUE, val |-> Contains(c.v, attribute.v)]
         ELSE [ok |-> FALSE, val |-> FALSE]
    [] OTHER -> [ok |-> FALSE, val |-> FALSE]

\* forces_replacement without the membership test of line 280.
ForcesReplacement_NoMembership(attribute, replace_paths, indention_level) ==
  [ok |-> TRUE, val |-> Truthy(replace_paths) /\ indention_level = 1]

\* forces_replacement (lines 278-281); raises when the membership test does
ForcesReplacement(attribute, replace_paths, indention_level) ==
  IF Truthy(replace_paths) /\ indention_level = 1
  THEN PyIn(attribute, replace_paths)
  ELSE [ok |-> TRUE, val |-> FALSE]

\* attributed_rendered
AttributeRendered(attribute) ==
  IF HasSpecial(AttrStr(attribute))
  THEN <<"\"">> \o AttrStr(attribute) \o <<"\"">>
  ELSE AttrStr(attribute)

\* before_value_rendered (lines 336-357)
BeforeRendered(before_value, before_sensitive_bool, indention_level) ==
  IF before_sensitive_bool THEN SENSITIVE_DATA
  ELSE RenderValue(before_value, indention_level + 1)

\* after_value_rendered (lines 359-382)
AfterRendered(after_value, after_sensitive_bool, after_unknown_bool, indention_level) ==
  IF after_sensitive_bool THEN SENSITIVE_DATA
  ELSE IF after_unknown_bool THEN KNOWN_AFTER_APPLY
  ELSE RenderValue(after_value, indention_level + 1)

\* symbol (lines 389-394)
ChangeSymbol(before_value, after_value) ==
  IF before_value.t = "null" /\ after_value.t # "null" THEN SYMBOL_ADD
  ELSE IF before_value.t # "null" /\ after_value.t = "null" THEN SYMBOL_DELETE
  ELSE SYMBOL_UPDATE

\* " -> (Forces Replacement)\n" if forces_replacement else "\n"
LineEnd(forces_replacement) ==
  IF forces_replacement THEN FORCES_REPLACEMENT \o NL ELSE NL

\* The leaf line with the key left out whenever the key is a list index.
LeafLine_IndexOmitted(attribute, before_value, after_value, before_value_rendered, after_value_rendered, forces_replacement, indention_level) ==
  IF attribute.t = "int"
  THEN Tabs(indention_level) \o ChangeSymbol(before_value, after_value)
         \o <<" ">>
         \o (IF before_value.t = "null" THEN <<>>
             ELSE before_value_rendered \o ARROW)
         \o after_value_rendered \o LineEnd(forces_replacement)
  ELSE Tabs(indention_level) \o ChangeSymbol(before_value, after_value)
         \o <<" ">> \o AttributeRendered(attribute) \o EQUALS
         \o (IF before_value.t = "null" THEN <<>>
             ELSE before_value_rendered \o ARROW)
         \o after_value_rendered \o LineEnd(forces_replacement)

\* The leaf line appended to result (lines 396-417).
LeafLine(attribute, before_value, after_value, before_value_rendered, after_value_rendered, forces_replacement, indention_level) ==
  LET tabs == Tabs(indention_level)
      symbol == ChangeSymbol(before_value, after_value)
  IN IF before_value.t = "null" /\ after_value.t # "null" /\ attribute.t = "int"
     THEN tabs \o symbol \o <<" ">> \o after_value_rendered
            \o LineEnd(forces_replacement)
     ELSE IF before_value.t = "null" /\ after_value.t # "null"
     THEN tabs \o symbol \o <<" ">> \o AttributeRendered(attribute) \o EQUALS
            \o after_value_rendered \o LineEnd(forces_replacement)
     ELSE tabs \o symbol \o <<" ">> \o AttributeRendered(attribute) \o EQUALS
            \o before_value_rendered \o ARROW \o after_value_rendered
            \o LineEnd(forces_replacement)

\* The opener of a nested block (lines 293-300 and 320-322).
BlockOpener(attribute, before_value, forces_replacement, indention_level) ==
  LET tabs == Tabs(indention_level)
  IN IF before_value.t = "dict"
     THEN IF attribute.t = "str"
          THEN tabs \o attribute.v \o <<" ", "=", " ", "{">>
                 \o LineEnd(forces_replacement)
          ELSE tabs \o <<"{">> \o LineEnd(forces_replacement)
     ELSE tabs \o AttrStr(attribute) \o <<" ", "=", " ", "[">>
            \o LineEnd(forces_replacement)

\* The closer of a nested block (lines 309 and 331).
BlockCloser(before_value, indention_level) ==
  Tabs(indention_level)
    \o (IF before_value.t = "dict" THEN <<"}">> ELSE <<"]">>) \o NL

\* The guard of the two nested cases (lines 286-292 and 313-319).
Recurses(before_value, after_value, before_sensitive_bool, after_sensitive_bool, after_unknown_bool) ==
  /\ before_value.t \in {"dict", "list"}
  /\ Len(before_value.v) > 0
  /\ after_value.t # "null"
  /\ ~before_sensitive_bool
  /\ ~after_sensitive_bool
  /\ ~after_unknown_bool

\* The maps handed to the recursive call (lines 304-306 and 326-328): the
\* caller's own maps, whatever the attribute.
NestedMap(map, attribute) == map

\* A recursive call made at the depth of its caller.
NestedLevel_Same(indention_level) == indention_level

\* The indention_level of the recursive call (lines 307 and 329).
NestedLevel(indention_level) == indention_level + 1

\* The replace_paths of the recursive call: the parameter's default, None.
NestedReplacePaths(replace_paths) == Null

Raised == [raised |-> TRUE, out |-> <<>>]

\* One `result += ...` of compare_values, kept with the locals it was built
\* from. kind is "leaf", "open" or "close"; path is the attributes from the
\* outermost call down to this one.
Entry(kind, path, level, text, bv, av, bp, ap, bs, as, au, fr) ==
  [kind |-> kind, path |-> path, level |-> level, text |-> text,
   before_value |-> bv, after_value |-> av,
   before_parsed |-> bp, after_parsed |-> ap,
   before_sensitive_bool |-> bs, after_sensitive_bool |-> as,
   after_unknown_bool |-> au, forces_replacement |-> fr]

\* compare_values returns [raised |-> FALSE, out |-> its appends to result],
\* or Raised.
Returned(out) == [raised |-> FALSE, out |-> out]

\* A nested block: the opener, what the recursive call appended, the closer.
NestedBlock(opener, inner, closer) ==
  IF inner.raised THEN Raised
  ELSE Returned(<<opener>> \o inner.out \o <<closer>>)

\* result after one more attribute: what this attribute appended, then what
\* the rest of the loop appends.
Sequel(one, rest) ==
  IF one.raised THEN Raised
  ELSE IF rest.raised THEN Raised
  ELSE Returned(one.out \o rest.out)

\* before_value: before[attribute], else None
BeforeValue(before, attribute) ==
  IF GetItem(before, attribute).ok THEN GetItem(before, attribute).val ELSE Null

RECURSIVE compare_values(_, _, _, _, _, _, _, _)
RECURSIVE CompareLoop(_, _, _, _, _, _, _, _, _, _)

\* The else branch of line 241 once the locals are set (lines 286-417):
\* a nested block, or a leaf line. bv and av are before_value and
\* after_value as resolved, bp and ap as json.loads left them.
CompareClassified(attribute, bv, av, bp, ap, before_sensitive_bool, after_sensitive_bool, after_unknown_bool, forces, before_sensitive, after_sensitive, after_unknown, replace_paths, indention_level, path) ==
  IF ~forces.ok THEN Raised
  ELSE IF Recurses(bp, ap, before_sensitive_bool, after_sensitive_bool,
                   after_unknown_bool)
  THEN NestedBlock(
         Entry("open", path, indention_level,
               BlockOpener(attribute, bp, forces.val, indention_level),
               bv, av, bp, ap, before_sensitive_bool, after_sensitive_bool,
               after_unknown_bool, forces.val),
         compare_values(bp, ap, NestedMap(before_sensitive, attribute),
                        NestedMap(after_sensitive, attribute),
                        NestedMap(after_unknown, attribute),
                        NestedReplacePaths(replace_paths),
                        NestedLevel(indention_level), path),
         Entry("close", path, indention_level,
               BlockCloser(bp, indention_level),
               bv, av, bp, ap, before_sensitive_bool, after_sensitive_bool,
               after_unknown_bool, forces.val))
  ELSE Returned(
         <<Entry("leaf", path, indention_level,
                 LeafLine(attribute, bp, ap,
                          BeforeRendered(bp, before_sensitive_bool,
                                         indention_level),
                          AfterRendered(ap, after_sensitive_bool,
                                        after_unknown_bool, indention_level),
                          forces.val, indention_level),
                 bv, av, bp, ap, before_sensitive_bool, after_sensitive_bool,
                 after_unknown_bool, forces.val)>>)

\* The equality test of line 212 on the resolved values, then the locals of
\* lines 243-281.
CompareResolved(attribute, before_value, after_value, before_sensitive, after_sensitive, after_unknown, replace_paths, indention_level, path) ==
  IF PyEq(before_value, after_value) THEN Returned(<<>>)
  ELSE CompareClassified(
         attribute, before_value, after_value,
         json_loads(before_value), json_loads(after_value),
         MarkedTrue(before_sensitive, attribute) \/ SensitiveName(attribute),
         MarkedTrue(after_sensitive, attribute) \/ SensitiveName(attribute),
         MarkedTrue(after_unknown, attribute),
         ForcesReplacement(attribute, replace_paths, indention_level),
         before_sensitive, after_sensitive, after_unknown, replace_paths,
         indention_level, path)

\* The body of `for attribute in attributes` for one attribute: what it
\* appends to result, or that it raised. path ends with the attribute.
CompareAttribute(attribute, before, after, before_sensitive, after_sensitive, after_unknown, replace_paths, indention_level, path) ==
  CompareResolved(attribute, BeforeValue(before, attribute),
                  AfterValue(after, after_unknown, attribute),
                  before_sensitive, after_sensitive, after_unknown,
                  replace_paths, indention_level, path)

\* The loop over attributes from position i.
CompareLoop(attributes, i, before, after, before_sensitive, after_sensitive, after_unknown, replace_paths, indention_level, path) ==
  IF i > Len(attributes) THEN Returned(<<>>)
  ELSE Sequel(CompareAttribute(attributes[i], before, after,
                               before_sensitive, after_sensitive,
                               after_unknown, replace_paths, indention_level,
                               Append(path, attributes[i])),
              CompareLoop(attributes, i + 1, before, after, before_sensitive,
                          after_sensitive, after_unknown, replace_paths,
                          indention_level, path))

\* compare_values: raised, or the sequence of its appends to result. path
\* is the position of this call in the outermost before/after trees.
compare_values(before, after, before_sensitive, after_sensitive, after_unknown, replace_paths, indention_level, path) ==
  IF SortRaises(AttributeSet(before, after)) THEN Raised
  ELSE CompareLoop(SortAttrs(AttributeSet(before, after)), 1, before, after,
                   before_sensitive, after_sensitive, after_unknown,
                   replace_paths, indention_level, path)

RECURSIVE TextOf(_)
\* The returned string: the appended texts in order.
TextOf(out) ==
  IF Len(out) = 0 THEN <<>> ELSE out[1].text \o TextOf(Tail(out))

-----------------------------------------------------------------------------
(* parse_changes                                                           *)

\* The initial value of result in parse_changes (lines 424-432).
PREAMBLE ==
  <<"\n", "R", "e", "s", "o", "u", "r", "c", "e", " ", "a", "c",
    "t", "i", "o", "n", "s", " ", "a", "r", "e", " ", "i", "n",
    "d", "i", "c", "a", "t", "e", "d", " ", "w", "i", "t", "h",
    " ", "t", "h", "e", " ", "f", "o", "l", "l", "o", "w", "i",
    "n", "g", " ", "s", "y", "m", "b", "o", "l", "s", ":", "\n",
    " ", " ", " ", " ", "+", " ", "c", "r", "e", "a", "t", "e",
    " ", "r", "e", "s", "o", "u", "r", "c", "e", "\n", " ", " ",
    " ", " ", "-", " ", "d", "e", "s", "t", "r", "o", "y", " ",
    "r", "e", "s", "o", "u", "r", "c", "e", "\n", " ", " ", " ",
    " ", "~", " ", "u", "p", "d", "a", "t", "e", " ", "i", "n",
    "-", "p", "l", "a", "c", "e", "\n", " ", " ", " ", " ", "+",
    "/", "-", " ", "c", "r", "e", "a", "t", "e", " ", "r", "e",
    "p", "l", "a", "c", "e", "m", "e", "n", "t", " ", "a", "n",
    "d", " ", "t", "h", "e", "n", " ", "d", "e", "s", "t", "r",
    "o", "y", "\n", "\n", "T", "e", "r", "r", "a", "f", "o", "r",
    "m", " ", "w", "i", "l", "l", " ", "p", "e", "r", "f", "o",
    "r", "m", " ", "t", "h", "e", " ", "f", "o", "l", "l", "o",
    "w", "i", "n", "g", " ", "a", "c", "t", "i", "o", "n", "s",
    ":", "\n">>

\* PARSING_LIBRARY["add"]["message"]
MESSAGE_ADD ==
  <<"T", "h", "i", "s", " ", "r", "e", "s", "o", "u", "r", "c",
    "e", " ", "w", "i", "l", "l", " ", "b", "e", " ", "c", "r",
    "e", "a", "t", "e", "d", " ", "a", "s", " ", "d", "e", "f",
    "i", "n", "e", "d", ".">>

\* PARSING_LIBRARY["update"]["message"]
MESSAGE_UPDATE ==
  <<"T", "h", "i", "s", " ", "r", "e", "s", "o", "u", "r", "c",
    "e", " ", "w", "i", "l", "l", " ", "b", "e", " ", "u", "p",
    "d", "a", "t", "e", "d", " ", "i", "n", "-", "p", "l", "a",
    "c", "e", ".">>

\* PARSING_LIBRARY["delete"]["message"]
MESSAGE_DELETE ==
  <<"T", "h", "i", "s", " ", "r", "e", "s", "o", "u", "r", "c",
    "e", " ", "w", "i", "l", "l", " ", "b", "e", " ", "d", "e",
    "s", "t", "r", "o", "y", "e", "d", ".">>

\* The message of the create/delete branch (line 466).
MESSAGE_REPLACE ==
  <<"T", "h", "i", "s", " ", "r", "e", "s", "o", "u", "r", "c",
    "e", " ", "m", "u", "s", "t", " ", "b", "e", " ", "r", "e",
    "p", "l", "a", "c", "e", "d", ".">>

\* RESOURCE_MESSAGE up to {0}
HDR_PROVIDER ==
  <<"\n", "#", " ", "P", "r", "o", "v", "i", "d", "e", "r", ":",
    " ", "[">>

\* RESOURCE_MESSAGE between {0} and {1}
HDR_TYPE ==
  <<"]", "\n", "#", " ", "R", "e", "s", "o", "u", "r", "c", "e",
    " ", "T", "y", "p", "e", ":", " ", "[">>

\* RESOURCE_MESSAGE between {1} and {2}
HDR_ADDRESS ==
  <<"]", "\n", "#", " ", "R", "e", "s", "o", "u", "r", "c", "e",
    " ", "I", "d", "e", "n", "t", "i", "f", "i", "e", "r", ":",
    " ", "[">>

\* RESOURCE_MESSAGE between {2} and {3}
HDR_MESSAGE ==
  <<"]", "\n", "#", " ", "M", "e", "s", "s", "a", "g", "e", ":",
    " ">>

K_actions ==
  <<"a", "c", "t", "i", "o", "n", "s">>

K_before ==
  <<"b", "e", "f", "o", "r", "e">>

K_after ==
  <<"a", "f", "t", "e", "r">>

K_before_sensitive ==
  <<"b", "e", "f", "o", "r", "e", "_", "s", "e", "n", "s", "i",
    "t", "i", "v", "e">>

K_after_sensitive ==
  <<"a", "f", "t", "e", "r", "_", "s", "e", "n", "s", "i", "t",
    "i", "v", "e">>

K_after_unknown ==
  <<"a", "f", "t", "e", "r", "_", "u", "n", "k", "n", "o", "w",
    "n">>

K_replace_paths ==
  <<"r", "e", "p", "l", "a", "c", "e", "_", "p", "a", "t", "h",
    "s">>

A_no_op ==
  <<"n", "o", "-", "o", "p">>

A_create ==
  <<"c", "r", "e", "a", "t", "e">>

A_delete ==
  <<"d", "e", "l", "e", "t", "e">>

A_update ==
  <<"u", "p", "d", "a", "t", "e">>

A_read ==
  <<"r", "e", "a", "d">>

RESOURCE_WORD ==
  <<"r", "e", "s", "o", "u", "r", "c", "e">>

\* A resource change is a record [provider_name, type, address, name, change]
\* of four str and the change object, a dict value that always holds
\* "actions" (a list of str), "before" and "after".

\* x in change["actions"]
HasAction(change, action) ==
  PyIn(S(action), DictGet(change, K_actions)).val

\* A missing map replaced by the before_sensitive map of the resource change.
MetadataMap_FromBeforeSensitive(change, key) ==
  IF DictHas(change, key) /\ DictGet(change, key).t = "dict"
  THEN DictGet(change, key)
  ELSE IF DictHas(change, K_before_sensitive) /\ DictGet(change, K_before_sensitive).t = "dict"
  THEN DictGet(change, K_before_sensitive)
  ELSE D(<<>>)

\* before_sensitive / after_sensitive / after_unknown of one resource change
\* (lines 435-448): the field when it is present and a dict, {} otherwise.
MetadataMap(change, key) ==
  IF DictHas(change, key) /\ DictGet(change, key).t = "dict"
  THEN DictGet(change, key)
  ELSE D(<<>>)

\* replace_paths of one resource change (lines 450-454).
ReplacePathsOf(change) ==
  IF /\ DictHas(change, K_replace_paths)
     /\ DictGet(change, K_replace_paths).t = "list"
     /\ Len(DictGet(change, K_replace_paths).v) > 0
  THEN DictGet(change, K_replace_paths).v[1]
  ELSE L(<<>>)

\* RESOURCE_MESSAGE.format(...) + "{\n"
ResourceHeader(rc, message, symbol) ==
  HDR_PROVIDER \o rc.provider_name \o HDR_TYPE \o rc.type \o HDR_ADDRESS
    \o rc.address \o HDR_MESSAGE \o message \o NL \o symbol \o <<" ">>
    \o RESOURCE_WORD \o <<" ", "\"">> \o rc.type \o <<"\"", " ", "\"">>
    \o rc.name \o <<"\"", " ", "{", "\n">>

\* The branches tested without the delete half of the first condition.
ActionBranch_CreateFirst(change) ==
  IF HasAction(change, A_create) THEN "create"
  ELSE IF HasAction(change, A_delete) THEN "delete"
  ELSE IF HasAction(change, A_update) THEN "update"
  ELSE IF HasAction(change, A_read) THEN "read"
  ELSE "exit"

\* Which branch of lines 456-588 a resource change takes.
ActionBranch(change) ==
  IF HasAction(change, A_create) /\ HasAction(change, A_delete) THEN "replace"
  ELSE IF HasAction(change, A_create) THEN "create"
  ELSE IF HasAction(change, A_delete) THEN "delete"
  ELSE IF HasAction(change, A_update) THEN "update"
  ELSE IF HasAction(change, A_read) THEN "read"
  ELSE "exit"

BranchMessage(branch) ==
  CASE branch = "replace" -> MESSAGE_REPLACE
    [] branch = "create" -> MESSAGE_ADD
    [] branch = "delete" -> MESSAGE_DELETE
    [] OTHER -> MESSAGE_UPDATE

BranchSymbol(branch) ==
  CASE branch = "replace" -> SYMBOL_ADD \o <<"/">> \o SYMBOL_DELETE
    [] branch = "create" -> SYMBOL_ADD
    [] branch = "delete" -> SYMBOL_DELETE
    [] OTHER -> SYMBOL_UPDATE

\* replace_paths handed to compare_values by every branch.
BranchReplacePaths_All(branch, change) == ReplacePathsOf(change)

\* The replace_paths argument of the branch's compare_values call: only the
\* create/delete branch passes it (line 489); the others leave the default.
BranchReplacePaths(branch, change) ==
  IF branch = "replace" THEN ReplacePathsOf(change) ELSE Null

\* What one iteration of the loop did: outcome is "block" (text appended),
\* "none" (no-op or read), "exit" (sys.exit(1)) or "raised" (compare_values
\* raised); replace_paths and out are the argument and the appends of the
\* compare_values call, when one was made.
StepRecord(outcome, branch, text, replace_paths, out) ==
  [outcome |-> outcome, branch |-> branch, text |-> text,
   replace_paths |-> replace_paths, out |-> out]

\* The four rendering branches: header, diff body, closing brace.
RenderedBlock(rc, branch, replace_paths, r) ==
  IF r.raised THEN StepRecord("raised", branch, <<>>, replace_paths, <<>>)
  ELSE StepRecord("block", branch,
                  ResourceHeader(rc, BranchMessage(branch),
                                 BranchSymbol(branch))
                    \o TextOf(r.out) \o <<"}", "\n">>,
                  replace_paths, r.out)

\* One iteration of `for resource_change in resources["resource_changes"]`
\* taking the given branch.
BranchStep(rc, branch) ==
  IF HasAction(rc.change, A_no_op) THEN StepRecord("none", "none", <<>>, Null, <<>>)
  ELSE IF branch = "read" THEN StepRecord("none", "read", <<>>, Null, <<>>)
  ELSE IF branch = "exit" THEN StepRecord("exit", "exit", <<>>, Null, <<>>)
  ELSE RenderedBlock(rc, branch, BranchReplacePaths(branch, rc.change),
                     compare_values(DictGet(rc.change, K_before),
                                    DictGet(rc.change, K_after),
                                    MetadataMap(rc.change, K_before_sensitive),
                                    MetadataMap(rc.change, K_after_sensitive),
                                    MetadataMap(rc.change, K_after_unknown),
                                    BranchReplacePaths(branch, rc.change),
                                    1, <<>>))

ResourceStep(rc) == BranchStep(rc, ActionBranch(rc.change))

\* str.lstrip()
LStrip(text) ==
  LET j == SkipWs(text, 1) IN SubSeq(text, j, Len(text))

-----------------------------------------------------------------------------
(* The resource counts of main (terraform-execution-summary)               *)

K_type == <<"t", "y", "p", "e">>
K_hook == <<"h", "o", "o", "k">>
K_action == <<"a", "c", "t", "i", "o", "n">>
T_plan == <<"p", "l", "a", "n">>
T_apply == <<"a", "p", "p", "l", "y">>
T_planned_change ==
  <<"p", "l", "a", "n", "n", "e", "d", "_", "c", "h", "a", "n", "g", "e">>
T_apply_complete ==
  <<"a", "p", "p", "l", "y", "_", "c", "o", "m", "p", "l", "e", "t", "e">>
T_import == <<"i", "m", "p", "o", "r", "t">>

RECURSIVE Split(_)
\* text.split("\n")
Split(text) ==
  IF \A i \in 1..Len(text) : text[i] # "\n" THEN <<text>>
  ELSE LET n == CHOOSE i \in 1..Len(text) :
                  text[i] = "\n" /\ \A j \in 1..(i - 1) : text[j] # "\n"
       IN <<SubSeq(text, 1, n - 1)>> \o Split(SubSeq(text, n + 1, Len(text)))

\* The four counts: to_import, to_add, to_change, to_destroy.
Counts(to_import, to_add, to_change, to_destroy) ==
  [to_import |-> to_import, to_add |-> to_add, to_change |-> to_change,
   to_destroy |-> to_destroy]

\* "planned_change" if execution_target == "plan" else "apply_complete"
ApplicableAction(execution_target) ==
  IF execution_target = T_plan THEN T_planned_change ELSE T_apply_complete

\* key in x followed by x[key], as lines 732-739 do them: raised when the
\* membership test or the subscript raises TypeError, found when the key is
\* there.
Lookup(x, key) ==
  IF ~PyIn(S(key), x).ok THEN [raised |-> TRUE, found |-> FALSE, val |-> Null]
     ELSE IF ~PyIn(S(key), x).val THEN [raised |-> FALSE, found |-> FALSE, val |-> Null]
     ELSE IF x.t # "dict" THEN [raised |-> TRUE, found |-> FALSE, val |-> Null]
  ELSE [raised |-> FALSE, found |-> TRUE, val |-> DictGet(x, key)]

\* The iteration raised TypeError.
TypeError == [t |-> "TypeError"]

\* A line counted whatever its type.
CountedAction_AnyType(line, applicable_action) ==
  LET execution_data == json_loads(S(line))
  IN IF execution_data = S(line) THEN S(<<>>)
     ELSE IF Lookup(execution_data, K_type).raised THEN TypeError
     ELSE IF ~Lookup(execution_data, K_type).found THEN S(<<>>)
     ELSE IF Lookup(execution_data, K_hook).raised THEN TypeError
     ELSE IF ~Lookup(execution_data, K_hook).found THEN S(<<>>)
     ELSE IF Lookup(Lookup(execution_data, K_hook).val, K_action).raised THEN TypeError
     ELSE IF ~Lookup(Lookup(execution_data, K_hook).val, K_action).found THEN S(<<>>)
     ELSE Lookup(Lookup(execution_data, K_hook).val, K_action).val

\* The body of `for line in log.text.split('\n')` up to the increments
\* (lines 728-739): the value of hook.action of a line that is counted,
\* S("") for a line that is skipped by `continue`, TypeError when the
\* iteration raises TypeError.
CountedAction(line, applicable_action) ==
  LET execution_data == json_loads(S(line))
  IN IF execution_data = S(line) THEN S(<<>>)
     ELSE IF Lookup(execution_data, K_type).raised THEN TypeError
     ELSE IF ~Lookup(execution_data, K_type).found THEN S(<<>>)
     ELSE IF ~PyEq(Lookup(execution_data, K_type).val, S(applicable_action)) THEN S(<<>>)
     ELSE IF Lookup(execution_data, K_hook).raised THEN TypeError
     ELSE IF ~Lookup(execution_data, K_hook).found THEN S(<<>>)
     ELSE IF Lookup(Lookup(execution_data, K_hook).val, K_action).raised THEN TypeError
     ELSE IF ~Lookup(Lookup(execution_data, K_hook).val, K_action).found THEN S(<<>>)
     ELSE Lookup(Lookup(execution_data, K_hook).val, K_action).val

\* 1 if action == name else 0
Increment(action, name) == IF PyEq(action, S(name)) THEN 1 ELSE 0

\* The four increments of lines 741-748.
Incremented(counts, action) ==
  Counts(counts.to_import + Increment(action, T_import),
         counts.to_add + Increment(action, A_create),
         counts.to_change + Increment(action, A_update),
         counts.to_destroy + Increment(action, A_delete))

\* any(value is None for value in [to_import, to_add, to_change, to_destroy])
AnyNone(counts) ==
  \/ counts.to_import.t = "null"
  \/ counts.to_add.t = "null"
  \/ counts.to_change.t = "null"
  \/ counts.to_destroy.t = "null"

\* "true" if any([to_import, to_add, to_change, to_destroy]) else "false"
ChangesOutput(counts) ==
  IF \/ counts.to_import # 0
     \/ counts.to_add # 0
     \/ counts.to_change # 0
     \/ counts.to_destroy # 0
  THEN <<"t", "r", "u", "e">>
  ELSE <<"f", "a", "l", "s", "e">>

-----------------------------------------------------------------------------
(* Inputs                                                                  *)

\* The longest list of the ordering inputs.
MaxListLen == 11

\* The most resource changes in one payload.
MaxResources == 2

\* The most issue comments on the pull request.
MaxComments == 3

\* The most lines of an execution log.
MaxLines == 2

\* A key that a mapping does not hold.
Absent == [t |-> "absent"]

\* The pairs of a mapping written as a sequence of <<key, value>>, the pairs
\* with an absent value left out.
RECURSIVE Present(_)
Present(kv) ==
  IF Len(kv) = 0 THEN <<>>
  ELSE IF kv[1][2].t = "absent" THEN Present(Tail(kv))
  ELSE <<kv[1]>> \o Present(Tail(kv))

Obj(kv) == D(Present(kv))

T_a == <<"a">>
T_b == <<"b">>
T_c == <<"c">>
T_n == <<"n">>
T_p == <<"p">>
T_x == <<"x">>
T_y == <<"y">>
T_zq == <<"z", "q">>
T_db_password == <<"d", "b", "_", "p", "a", "s", "s", "w", "o", "r", "d">>
T_API_TOKEN == <<"A", "P", "I", "_", "T", "O", "K", "E", "N">>
T_secret_id == <<"s", "e", "c", "r", "e", "t", "_", "i", "d">>
T_null == <<"n", "u", "l", "l">>
T_json_list == <<"[", "1", "]">>
T_json_list_spaced == <<"[", "1", " ", "]">>
T_json_obj == <<"{", "\"", "a", "\"", ":", "1", "}">>
T_json_obj_spaced == <<"{", "\"", "a", "\"", ":", " ", "1", "}">>

\* A string one character longer than render_string shows.
LongPlain == S(Repeat("z", LARGE_VALUE_LENGTH + 1))

\* A string of the same length whose content is a JSON document: a quoted
\* string.
LongJson == S(<<"\"">> \o Repeat("z", LARGE_VALUE_LENGTH - 1) \o <<"\"">>)

\* The longest string render_string shows.
LongestShown == S(Repeat("z", LARGE_VALUE_LENGTH))

CompareArgs(before, after, bs, as, au, rp) ==
  [op |-> "compare_values", before |-> before, after |-> after,
   before_sensitive |-> bs, after_sensitive |-> as, after_unknown |-> au,
   replace_paths |-> rp]

NoMap == D(<<>>)
MarkTrue == B(TRUE)
MarkList == L(<<B(TRUE)>>)

\* One attribute with every pair of before and after values, no metadata.
FlatValues ==
  {Absent, Null, B(TRUE), N(1), S(<<"1">>), S(T_x), S(T_y), S(T_null),
   S(T_json_list),
   S(T_json_list_spaced), S(T_json_obj), S(T_json_obj_spaced),
   Obj(<< <<T_c, S(T_zq)>> >>), L(<<N(1), N(2)>>)}

FlatInputs ==
  {CompareArgs(Obj(<< <<k, bv>> >>), Obj(<< <<k, av>> >>), NoMap, NoMap, NoMap,
               rp) :
     k \in {T_a, T_db_password}, bv \in FlatValues, av \in FlatValues,
     rp \in {Null, L(<<S(T_a)>>)}}

\* One attribute under every combination of sensitivity and unknown marks.
MarkedValues ==
  {Absent, Null, B(TRUE), S(T_x), S(T_zq),
   Obj(<< <<T_db_password, S(T_zq)>>, <<T_n, N(1)>> >>)}

MarkedInputs ==
  {CompareArgs(Obj(<< <<k, bv>> >>), Obj(<< <<k, av>> >>),
               Obj(<< <<k, bs>> >>), Obj(<< <<k, as>> >>), Obj(<< <<k, au>> >>),
               Null) :
     k \in {T_a, T_API_TOKEN}, bv \in MarkedValues, av \in MarkedValues,
     bs \in {Absent, MarkTrue}, as \in {Absent, MarkTrue, MarkList},
     au \in {Absent, MarkTrue, MarkList}}

\* A parent p holding a child c (and a sibling n that never changes), beside
\* a top-level attribute named like the child; the metadata marks the
\* top-level name, the nested child, or the parent.
NestedTree(c, v) ==
  Obj(<< <<c, IF c = T_p THEN Absent ELSE S(T_y)>>,
         <<T_p, Obj(<< <<c, v>>, <<T_n, N(1)>> >>)>> >>)

TopMark(c) == Obj(<< <<c, MarkTrue>> >>)
ChildMark(c) == Obj(<< <<T_p, Obj(<< <<c, MarkTrue>> >>)>> >>)

NestedInputsOf(c) ==
  {CompareArgs(NestedTree(c, bv), NestedTree(c, av), bs, as, au, rp) :
     bv \in {Absent, S(T_x), S(T_zq)}, av \in {Absent, S(T_x), S(T_zq)},
     bs \in {NoMap, ChildMark(c)},
     as \in {NoMap, TopMark(c), ChildMark(c), TopMark(T_p)},
     au \in {NoMap, TopMark(c), ChildMark(c)},
     rp \in {Null, L(<<S(T_p), S(c)>>)}}

NestedInputs == UNION {NestedInputsOf(c) : c \in {T_c, T_p, T_secret_id}}

\* Lists of every length up to MaxListLen on both sides.
ListInputs ==
  {CompareArgs(L([i \in 1..n |-> N(0)]), L([i \in 1..m |-> N(1)]),
               NoMap, NoMap, NoMap, Null) :
     n \in 0..MaxListLen, m \in 0..MaxListLen}

\* Mappings over four keys, inserted in an order that is not the sorted one.
OrderKeys == << <<"b">>, <<"a", "b">>, <<"B">>, <<"a">> >>

KeysIn(set, v) ==
  Obj([i \in 1..Len(OrderKeys) |->
         <<OrderKeys[i], IF i \in set THEN v ELSE Absent>>])

KeyOrderInputs ==
  {CompareArgs(KeysIn(bset, N(1)), KeysIn(aset, N(2)), NoMap, NoMap, NoMap,
               Null) :
     bset \in SUBSET (1..Len(OrderKeys)), aset \in SUBSET (1..Len(OrderKeys))}

\* Strings around the length that render_string hides.
LargeValues == {Absent, S(T_x), LongPlain, LongJson, LongestShown}

LargeInputs ==
  {CompareArgs(Obj(<< <<T_a, bv>> >>), Obj(<< <<T_a, av>> >>), NoMap, NoMap,
               NoMap, Null) :
     bv \in LargeValues, av \in LargeValues}

\* Every pairing of top-level types, lists against mappings included.
ShapeValues ==
  {Null, N(1), S(<<"x", "y">>), L(<<N(1), N(2)>>), L(<<>>),
   Obj(<< <<T_a, N(1)>> >>),
   Obj(<< <<T_a, L(<<N(1), N(2)>>)>> >>),
   Obj(<< <<T_a, Obj(<< <<T_b, N(1)>> >>)>> >>),
   Obj(<< <<T_a, S(<<"x", "y">>)>> >>)}

ShapeInputs ==
  {CompareArgs(before, after, NoMap, NoMap, NoMap, Null) :
     before \in ShapeValues, after \in ShapeValues}

\* Small worked calls: one changed and one unchanged key, and a list-valued
\* attribute whose second element changes.
T_list == <<"l", "i", "s", "t">>

ScenarioInputs ==
  {CompareArgs(Obj(<< <<T_a, S(T_x)>>, <<T_b, N(1)>> >>),
               Obj(<< <<T_a, S(T_y)>>, <<T_b, N(1)>> >>),
               NoMap, NoMap, NoMap, Null),
   CompareArgs(Obj(<< <<T_list, L(<<N(1), N(2)>>)>> >>),
               Obj(<< <<T_list, L(<<N(1), N(3)>>)>> >>),
               NoMap, NoMap, NoMap, Null),
   CompareArgs(Obj(<< <<T_list, L(<<N(1), N(2)>>)>> >>),
               Obj(<< <<T_list, L(<<N(1), N(2), N(3)>>)>> >>),
               NoMap, NoMap, NoMap, Null),
   CompareArgs(Obj(<< <<T_list, L(<<N(1), N(2)>>)>> >>),
               Obj(<< <<T_list, L(<<N(3)>>)>> >>),
               NoMap, NoMap, NoMap, Null)}

\* Trees three levels deep: a mapping in a mapping holding a scalar and a
\* list, and the same tree as embedded JSON.
T_d == <<"d">>

DeepTree(c, e) ==
  Obj(<< <<T_a, Obj(<< <<T_b, Obj(<< <<T_c, c>>,
                                    <<T_d, L(<<N(1), e>>)>> >>)>> >>)>> >>)

DeepInputs ==
  {CompareArgs(DeepTree(c1, e1), DeepTree(c2, e2), NoMap, NoMap, NoMap, rp) :
     c1 \in {N(1), S(T_x)}, c2 \in {N(1), N(2), Absent},
     e1 \in {N(2), Obj(<< <<T_a, N(1)>> >>)},
     e2 \in {N(2), N(3), Obj(<< <<T_a, N(2)>> >>)},
     rp \in {Null, L(<<S(T_a)>>)}}

\* A container c inside a parent p, changed, with the marks of NestedInputs.
MarkedContainerInputs ==
  {CompareArgs(Obj(<< <<T_p, Obj(<< <<T_c, bv>> >>)>> >>),
               Obj(<< <<T_p, Obj(<< <<T_c, av>> >>)>> >>), bs, as, au, Null) :
     bv \in {Obj(<< <<T_a, N(1)>> >>), L(<<N(1)>>)},
     av \in {Obj(<< <<T_a, N(2)>> >>), L(<<N(2)>>)},
     bs \in {NoMap, ChildMark(T_c)},
     as \in {NoMap, TopMark(T_c), ChildMark(T_c)},
     au \in {NoMap, TopMark(T_c), ChildMark(T_c)}}

IsCompareInput(x) ==
  \/ x \in ScenarioInputs
  \/ x \in DeepInputs
  \/ x \in MarkedContainerInputs
  \/ x \in FlatInputs
  \/ x \in MarkedInputs
  \/ x \in NestedInputs
  \/ x \in ListInputs
  \/ x \in KeyOrderInputs
  \/ x \in LargeInputs
  \/ x \in ShapeInputs

\* Calls of the value renderer.
RenderValues ==
  {Null, B(TRUE), B(FALSE), N(0), N(12), S(<<>>), S(T_x), S(T_null),
   S(<<"t", "r", "u", "e">>), S(<<"a", "\"", "b">>), S(<<"\"">>),
   LongPlain, LongJson, LongestShown, L(<<>>), D(<<>>),
   L(<<N(1), S(T_x), Null, B(FALSE), L(<<>>), D(<<>>)>>),
   L(<<LongPlain>>),
   Obj(<< <<T_a, N(1)>>, <<<<"k", ":", "v">>, S(T_x)>> >>),
   Obj(<< <<<<"a", "|", "b">>, N(1)>>, <<<<"a", "\\", "b">>, N(2)>> >>),
   Obj(<< <<T_b, Null>>, <<T_a, L(<<N(1), Obj(<< <<T_c, B(TRUE)>> >>)>>)>> >>),
   Obj(<< <<T_db_password, S(T_zq)>> >>),
   Obj(<< <<T_a, LongJson>> >>)}

RenderInputs ==
  {[op |-> "render", value |-> v, start_with_indention |-> swi,
    indention_level |-> lvl] :
     v \in RenderValues, swi \in BOOLEAN, lvl \in 1..2}

\* Resource changes.
T_aws == <<"a", "w", "s">>
T_aws_vpc == <<"a", "w", "s", "_", "v", "p", "c">>
T_main == <<"m", "a", "i", "n">>
T_address == <<"a", "w", "s", "_", "v", "p", "c", ".", "m", "a", "i", "n">>

Change(actions, before, after, bs, as, au, rp) ==
  Obj(<< <<K_actions, L(actions)>>, <<K_before, before>>, <<K_after, after>>,
         <<K_before_sensitive, bs>>, <<K_after_sensitive, as>>,
         <<K_after_unknown, au>>, <<K_replace_paths, rp>> >>)

ResourceChange(change) ==
  [provider_name |-> T_aws, type |-> T_aws_vpc, address |-> T_address,
   name |-> T_main, change |-> change]

ActionLists ==
  {<<S(A_create)>>, <<S(A_delete)>>, <<S(A_update)>>,
   <<S(A_delete), S(A_create)>>, <<S(A_create), S(A_delete)>>,
   <<S(A_no_op)>>, <<S(A_read)>>, <<>>, <<S(<<"f", "o", "r", "g", "e", "t">>)>>}

\* replace_paths: absent, not a list, empty, one path, two paths, an empty
\* first path.
ReplacePathsValues ==
  {Absent, S(T_a), L(<<>>), L(<<L(<<S(T_a)>>)>>),
   L(<<L(<<S(T_a)>>), L(<<S(T_b)>>)>>), L(<<L(<<>>), L(<<S(T_a)>>)>>)}

\* before and after of a resource change: two attributes a and b, each
\* changed, unchanged, created or deleted.
TreePairs ==
  {<<Obj(<< <<T_a, S(T_x)>>, <<T_b, N(1)>> >>),
     Obj(<< <<T_a, S(T_y)>>, <<T_b, N(2)>> >>)>>,
   <<Obj(<< <<T_a, S(T_x)>>, <<T_b, N(1)>> >>),
     Obj(<< <<T_a, S(T_x)>>, <<T_b, N(2)>> >>)>>,
   <<Null, Obj(<< <<T_a, N(1)>> >>)>>,
   <<Obj(<< <<T_a, B(TRUE)>>, <<T_b, S(T_x)>> >>), Null>>,
   <<Obj(<< <<T_a, Obj(<< <<T_a, N(1)>> >>)>> >>),
     Obj(<< <<T_a, Obj(<< <<T_a, N(2)>> >>)>> >>)>>}

SingleResources ==
  {ResourceChange(Change(actions, tp[1], tp[2], Absent, Absent, Absent, rp)) :
     actions \in ActionLists, tp \in TreePairs, rp \in ReplacePathsValues}

\* Metadata fields that are present, absent or not a mapping.
MetadataResources ==
  {ResourceChange(Change(<<S(A_update)>>,
                         Obj(<< <<T_a, S(T_x)>>, <<T_b, N(1)>> >>),
                         Obj(<< <<T_a, S(T_zq)>> >>), bs, as, au, Absent)) :
     bs \in {Absent, B(FALSE), Obj(<< <<T_a, MarkTrue>> >>)},
     as \in {Absent, B(FALSE), Obj(<< <<T_a, MarkTrue>> >>)},
     au \in {Absent, B(FALSE), Obj(<< <<T_b, MarkTrue>> >>)}}

\* The resource changes of the longer payloads: one per action list.
ListedResources ==
  {ResourceChange(Change(actions, Obj(<< <<T_a, S(T_x)>> >>),
                         Obj(<< <<T_a, S(T_y)>> >>), Absent, Absent, Absent,
                         L(<<L(<<S(T_a)>>)>>))) :
     actions \in ActionLists}

RECURSIVE Payloads(_)
\* The sequences of n listed resource changes.
Payloads(n) ==
  IF n = 0 THEN {<<>>}
  ELSE {Append(rest, rc) : rest \in Payloads(n - 1), rc \in ListedResources}

ParseInputs ==
  {[op |-> "parse_changes", resource_changes |-> rcs] :
     rcs \in {<<rc>> : rc \in SingleResources \cup MetadataResources}
               \cup UNION {Payloads(n) : n \in 0..MaxResources}}

\* github-pull-request-comment: --label (None when it is not given), the
\* content of the --comment file, and the bodies of the issue comments of the
\* pull request in listing order.
T_label == <<"t", "f">>

CommentBodies == {<<"x">>, <<"t", "f">>, <<"a", "t", "f", "b">>, <<"t">>}

RECURSIVE CommentLists(_)
CommentLists(n) ==
  IF n = 0 THEN {<<>>}
  ELSE {Append(rest, body) : rest \in CommentLists(n - 1), body \in CommentBodies}

CommentInputs ==
  {[op |-> "pull_request_comment", label |-> label, comment |-> <<"n", "e", "w">>,
    comments |-> comments] :
     label \in {Null, S(<<>>), S(T_label)},
     comments \in UNION {CommentLists(n) : n \in 0..MaxComments}}

\* The resource counts of a run: the four counts of the API (null when the
\* API has none), the execution target and the text of the execution log.
LINE_TEXT ==
  <<"T", "e", "r", "r", "a", "f", "o", "r", "m", " ", "v", "1", ".", "5">>

LINE_NUMBER ==
  <<"5">>

LINE_NO_TYPE ==
  <<"{", "\"", "h", "o", "o", "k", "\"", ":", "{", "\"", "a", "c", "t",
    "i", "o", "n", "\"", ":", "\"", "c", "r", "e", "a", "t", "e", "\"",
    "}", "}">>

LINE_NO_HOOK ==
  <<"{", "\"", "t", "y", "p", "e", "\"", ":", "\"", "p", "l", "a", "n",
    "n", "e", "d", "_", "c", "h", "a", "n", "g", "e", "\"", "}">>

LINE_NO_ACTION ==
  <<"{", "\"", "t", "y", "p", "e", "\"", ":", "\"", "p", "l", "a", "n",
    "n", "e", "d", "_", "c", "h", "a", "n", "g", "e", "\"", ",", "\"", "h",
    "o", "o", "k", "\"", ":", "{", "}", "}">>

LINE_PLAN_CREATE ==
  <<"{", "\"", "t", "y", "p", "e", "\"", ":", "\"", "p", "l", "a", "n",
    "n", "e", "d", "_", "c", "h", "a", "n", "g", "e", "\"", ",", "\"", "h",
    "o", "o", "k", "\"", ":", "{", "\"", "a", "c", "t", "i", "o", "n",
    "\"", ":", "\"", "c", "r", "e", "a", "t", "e", "\"", "}", "}">>

LINE_PLAN_IMPORT ==
  <<"{", "\"", "t", "y", "p", "e", "\"", ":", "\"", "p", "l", "a", "n",
    "n", "e", "d", "_", "c", "h", "a", "n", "g", "e", "\"", ",", "\"", "h",
    "o", "o", "k", "\"", ":", "{", "\"", "a", "c", "t", "i", "o", "n",
    "\"", ":", "\"", "i", "m", "p", "o", "r", "t", "\"", "}", "}">>

LINE_PLAN_READ ==
  <<"{", "\"", "t", "y", "p", "e", "\"", ":", "\"", "p", "l", "a", "n",
    "n", "e", "d", "_", "c", "h", "a", "n", "g", "e", "\"", ",", "\"", "h",
    "o", "o", "k", "\"", ":", "{", "\"", "a", "c", "t", "i", "o", "n",
    "\"", ":", "\"", "r", "e", "a", "d", "\"", "}", "}">>

LINE_APPLY_UPDATE ==
  <<"{", "\"", "t", "y", "p", "e", "\"", ":", "\"", "a", "p", "p", "l",
    "y", "_", "c", "o", "m", "p", "l", "e", "t", "e", "\"", ",", "\"", "h",
    "o", "o", "k", "\"", ":", "{", "\"", "a", "c", "t", "i", "o", "n",
    "\"", ":", "\"", "u", "p", "d", "a", "t", "e", "\"", "}", "}">>

LINE_APPLY_DELETE ==
  <<"{", "\"", "t", "y", "p", "e", "\"", ":", "\"", "a", "p", "p", "l",
    "y", "_", "c", "o", "m", "p", "l", "e", "t", "e", "\"", ",", "\"", "h",
    "o", "o", "k", "\"", ":", "{", "\"", "a", "c", "t", "i", "o", "n",
    "\"", ":", "\"", "d", "e", "l", "e", "t", "e", "\"", "}", "}">>

LogLines ==
  {LINE_TEXT, LINE_NUMBER, LINE_NO_TYPE, LINE_NO_HOOK, LINE_NO_ACTION,
   LINE_PLAN_CREATE, LINE_PLAN_IMPORT, LINE_PLAN_READ,
   LINE_APPLY_UPDATE, LINE_APPLY_DELETE}

RECURSIVE Logs(_)
\* The logs of n lines, the lines joined by "\n".
Logs(n) ==
  IF n = 0 THEN {<<>>}
  ELSE IF n = 1 THEN LogLines
  ELSE {log \o <<"\n">> \o line : log \in Logs(n - 1), line \in LogLines}

ApiCounts ==
  {Counts(Null, Null, Null, Null), Counts(Null, N(1), N(0), N(2)),
   Counts(N(0), N(0), N(0), N(0)), Counts(N(0), N(3), N(0), N(1))}

CountInputs ==
  {[op |-> "resource_counts", counts |-> counts, execution_target |-> target,
    log |-> log] :
     counts \in ApiCounts, target \in {T_plan, T_apply},
     log \in UNION {Logs(n) : n \in 0..MaxLines}}

IsInput(x) ==
  \/ x \in CountInputs
  \/ IsCompareInput(x)
  \/ x \in RenderInputs
  \/ x \in ParseInputs
  \/ x \in CommentInputs

-----------------------------------------------------------------------------
(* The state machine                                                       *)
(* pc       where the call is: "start", "loop" (in the loop of             *)
(*          parse_changes), "done" (it returned), "raised" (an exception   *)
(*          left it), "exit" (sys.exit(1)), "written" (main wrote the      *)
(*          returned string to the plan summary file), "scan" and "create" *)
(*          (github-pull-request-comment looks for a labelled comment,     *)
(*          writes a new one), "count" and "counted" (main recounts the    *)
(*          resources from the log, has the final counts)                  *)
(* args     the arguments of the call                                      *)
(* result   the value of the local `result`, the returned string at "done" *)
(*          (the four counts, for the resource counts of main)             *)
(* emitted  what was appended to result: the appends of compare_values, or *)
(*          the writes made on the pull request, or the outputs set, or    *)
(*          one record per resource change that parse_changes went through *)
(* idx      the position of parse_changes in resource_changes              *)
(* written  the content of the plan summary file that main opened          *)

Init ==
  /\ pc = "start"
  /\ IsInput(args)
  /\ result = <<>>
  /\ emitted = <<>>
  /\ idx = 0
  /\ written = <<>>

\* The state after a call of compare_values that returned r.
Returns(r) ==
  /\ pc' = IF r.raised THEN "raised" ELSE "done"
  /\ result' = TextOf(r.out)
  /\ emitted' = r.out

\* A call that stores the decoded embedded JSON back into the before tree.
CompareValues_DecodesInPlace ==
  /\ pc = "start"
  /\ args.op = "compare_values"
  /\ Returns(compare_values(args.before, args.after, args.before_sensitive,
                            args.after_sensitive, args.after_unknown,
                            args.replace_paths, 1, <<>>))
  /\ args' = [args EXCEPT !.before =
                IF args.before.t = "dict"
                THEN D([i \in 1..Len(args.before.v) |->
                          <<args.before.v[i][1], json_loads(args.before.v[i][2])>>])
                ELSE args.before]
  /\ UNCHANGED <<idx, written>>

\* A call of compare_values at the outermost level.
CompareValues ==
  /\ pc = "start"
  /\ args.op = "compare_values"
  /\ Returns(compare_values(args.before, args.after, args.before_sensitive,
                            args.after_sensitive, args.after_unknown,
                            args.replace_paths, 1, <<>>))
  /\ UNCHANGED <<args, idx, written>>

\* A call of the value renderer on one value.
Render ==
  /\ pc = "start"
  /\ args.op = "render"
  /\ result' =
       CASE args.value.t = "dict" ->
              render_dict(args.value, args.start_with_indention,
                          args.indention_level)
         [] args.value.t = "list" ->
              render_list(args.value, args.start_with_indention,
                          args.indention_level)
         [] OTHER -> RenderValue(args.value, args.indention_level)
  /\ pc' = "done"
  /\ UNCHANGED <<args, emitted, idx, written>>

\* parse_changes up to its loop: result holds the preamble.
ParseChangesBegin ==
  /\ pc = "start"
  /\ args.op = "parse_changes"
  /\ result' = PREAMBLE
  /\ idx' = 1
  /\ pc' = "loop"
  /\ UNCHANGED <<args, emitted, written>>

\* One iteration whose text is put in front of result instead of after it.
Stepped_Prepended(step) ==
  /\ result' = step.text \o result
  /\ emitted' = Append(emitted, step)
  /\ pc' = IF step.outcome \in {"exit", "raised"} THEN step.outcome ELSE "loop"
  /\ idx' = IF step.outcome \in {"exit", "raised"} THEN idx ELSE idx + 1

\* One iteration after which the loop goes on whatever the iteration did.
Stepped_ExitIgnored(step) ==
  /\ result' = result \o step.text
  /\ emitted' = Append(emitted, step)
  /\ pc' = "loop"
  /\ idx' = idx + 1

\* The state after one iteration of the loop that did `step`.
Stepped(step) ==
  /\ result' = result \o step.text
  /\ emitted' = Append(emitted, step)
  /\ pc' = IF step.outcome \in {"exit", "raised"} THEN step.outcome ELSE "loop"
  /\ idx' = IF step.outcome \in {"exit", "raised"} THEN idx ELSE idx + 1

\* One iteration of the loop of parse_changes.
ParseChangesStep ==
  /\ pc = "loop"
  /\ idx <= Len(args.resource_changes)
  /\ Stepped(ResourceStep(args.resource_changes[idx]))
  /\ UNCHANGED <<args, written>>

\* The end of parse_changes: result += "\n"; return result.lstrip()
ParseChangesReturn ==
  /\ pc = "loop"
  /\ idx > Len(args.resource_changes)
  /\ result' = LStrip(result \o NL)
  /\ pc' = "done"
  /\ UNCHANGED <<args, emitted, idx, written>>

\* main: tmp.write(parse_changes(json_summary)), once parse_changes returned.
WriteSummary ==
  /\ pc = "done"
  /\ args.op = "parse_changes"
  /\ written' = result
  /\ pc' = "written"
  /\ UNCHANGED <<args, result, emitted, idx>>

\* One write on the pull request: comment.edit(body) of the listed comment
\* `target`, or pull_request.create_issue_comment(body) with target 0.
Write(kind, target, body) == [kind |-> kind, target |-> target, body |-> body]

\* The outcome of a call of the GitHub API: the write is made and the run
\* goes on to `next`, or GithubException is raised, caught, and the run ends
\* by sys.exit(1).
ApiCall(write, next) ==
  \/ /\ emitted' = Append(emitted, write)
     /\ pc' = next
  \/ /\ emitted' = emitted
     /\ pc' = "exit"

\* main of github-pull-request-comment up to `if args.label:`.
CommentBegin ==
  /\ pc = "start"
  /\ args.op = "pull_request_comment"
  /\ pc' = IF Truthy(args.label) THEN "scan" ELSE "create"
  /\ idx' = 1
  /\ UNCHANGED <<args, result, emitted, written>>

\* A scan that goes on with the next comment after an edit.
CommentScan_NoReturn ==
  /\ pc = "scan"
  /\ IF idx > Len(args.comments)
     THEN pc' = "create" /\ UNCHANGED <<emitted, idx>>
     ELSE /\ idx' = idx + 1
          /\ IF Contains(args.comments[idx], args.label.v)
             THEN ApiCall(Write("edit", idx, args.comment), "scan")
             ELSE pc' = "scan" /\ UNCHANGED emitted
  /\ UNCHANGED <<args, result, written>>

\* One iteration of `for comment in comments`, or the end of the loop.
CommentScan ==
  /\ pc = "scan"
  /\ IF idx > Len(args.comments)
     THEN pc' = "create" /\ UNCHANGED <<emitted, idx>>
     ELSE IF Contains(args.comments[idx], args.label.v)
     THEN ApiCall(Write("edit", idx, args.comment), "done") /\ UNCHANGED idx
     ELSE pc' = "scan" /\ idx' = idx + 1 /\ UNCHANGED emitted
  /\ UNCHANGED <<args, result, written>>

\* pull_request.create_issue_comment(comment_file.read())
CommentCreate ==
  /\ pc = "create"
  /\ ApiCall(Write("create", 0, args.comment), "done")
  /\ UNCHANGED <<args, result, idx, written>>

\* main at line 724: the counts of the API are kept, or reset to 0 to be
\* recounted from the lines of the log.
CountBegin ==
  /\ pc = "start"
  /\ args.op = "resource_counts"
  /\ IF AnyNone(args.counts)
     THEN /\ result' = Counts(0, 0, 0, 0)
          /\ pc' = "count"
     ELSE /\ result' = Counts(args.counts.to_import.v, args.counts.to_add.v,
                              args.counts.to_change.v, args.counts.to_destroy.v)
          /\ pc' = "counted"
  /\ idx' = 1
  /\ UNCHANGED <<args, emitted, written>>

\* The state after one line of the log whose hook.action is `action`.
LineCounted(action) ==
  /\ pc' = IF action = TypeError THEN "raised" ELSE "count"
  /\ result' = IF action = TypeError THEN result ELSE Incremented(result, action)
  /\ idx' = IF action = TypeError THEN idx ELSE idx + 1

\* One iteration of `for line in log.text.split('\n')`, or its end.
CountLine ==
  /\ pc = "count"
  /\ IF idx > Len(Split(args.log))
     THEN pc' = "counted" /\ UNCHANGED <<result, idx>>
     ELSE LineCounted(CountedAction(Split(args.log)[idx],
                                    ApplicableAction(args.execution_target)))
  /\ UNCHANGED <<args, emitted, written>>

\* The outputs of lines 750-756 that carry the counts.
SetOutputs ==
  /\ pc = "counted"
  /\ emitted' = << <<"changes", ChangesOutput(result)>>,
                   <<"resource_imports", IntToChars(result.to_import)>>,
                   <<"resource_additions", IntToChars(result.to_add)>>,
                   <<"resource_changes", IntToChars(result.to_change)>>,
                   <<"resource_destructions", IntToChars(result.to_destroy)>> >>
  /\ pc' = "done"
  /\ UNCHANGED <<args, result, idx, written>>

Next ==
  \/ CountBegin
  \/ CountLine
  \/ SetOutputs
  \/ CommentBegin
  \/ CommentScan
  \/ CommentCreate
  \/ CompareValues
  \/ Render
  \/ ParseChangesBegin
  \/ ParseChangesStep
  \/ ParseChangesReturn
  \/ WriteSummary

Spec == Init /\ [][Next]_vars

\* A call that was started runs: it leaves "start" by returning, raising or
\* entering the loop of parse_changes.
CallRuns == pc = "start" /\ pc' \in {"done", "raised", "loop"}

\* The interpreter runs a call that was started: nothing blocks it and
\* nothing else is scheduled (no I/O, no shared state, no cancellation).
LiveSpec == Spec /\ WF_pc(CallRuns)

-----------------------------------------------------------------------------
(* Properties                                                              *)

\* A call of compare_values that returned.
Compared == args.op = "compare_values" /\ pc = "done"

Last(path) == path[Len(path)]

\* The entries that carry a line or open a block.
IsLine(e) == e.kind \in {"leaf", "open"}

\* Strict equality of two JSON values: a boolean is not a number, mappings
\* are equal whatever the order of their keys.
RECURSIVE SameJson(_, _)
SameJson(a, b) ==
  IF a.t # b.t THEN FALSE
  ELSE IF a.t = "null" THEN TRUE
  ELSE IF a.t \in {"bool", "int", "str"} THEN a.v = b.v
  ELSE IF a.t = "list"
       THEN /\ Len(a.v) = Len(b.v)
            /\ \A i \in 1..Len(a.v) : SameJson(a.v[i], b.v[i])
  ELSE /\ Len(a.v) = Len(b.v)
       /\ \A i \in 1..Len(a.v) :
             /\ DictHas(b, a.v[i][1])
             /\ SameJson(a.v[i][2], DictGet(b, a.v[i][1]))

\* A metadata value that marks its key: true or [true].
IsMark(x) ==
  \/ x.t = "bool" /\ x.v
  \/ x.t = "list" /\ Len(x.v) = 1 /\ x.v[1].t = "bool" /\ x.v[1].v

RECURSIVE MarkedAt(_, _)
\* The metadata map marks the attribute at `path`: the entry found by
\* following the path segments down the map, one level per segment.
MarkedAt(map, path) ==
  IF Len(path) = 0 THEN FALSE
  ELSE LET x == GetItem(map, path[1])
       IN IF ~x.ok THEN FALSE
          ELSE IF Len(path) = 1 THEN IsMark(x.val)
          ELSE MarkedAt(x.val, Tail(path))

\* The key-name rule, on the key's lowercased name.
NameIsSensitive(attribute) ==
  /\ attribute.t = "str"
  /\ \E w \in {<<"a", "u", "t", "h">>, <<"p", "a", "s", "s">>,
               <<"t", "o", "k", "e", "n">>, <<"j", "w", "t">>,
               <<"s", "e", "c", "r", "e", "t">>} :
        Contains(Lower(attribute.v), w)

\* The attribute at `path` is sensitive on the side whose sensitivity map is
\* `map`: by the metadata for that attribute or by the key-name rule.
SensitiveAt(map, path) ==
  \/ MarkedAt(map, path)
  \/ NameIsSensitive(Last(path))

RECURSIVE SecretCovered(_, _, _, _, _)
\* Every occurrence of the string `secret` in the tree is the value of a
\* sensitive key or lies inside the value of one.
SecretCovered(tree, map, path, covered, secret) ==
  CASE tree.t = "str" -> tree.v # secret \/ covered
    [] tree.t = "dict" ->
         \A i \in 1..Len(tree.v) :
            SecretCovered(tree.v[i][2], map, Append(path, S(tree.v[i][1])),
                          covered
                            \/ SensitiveAt(map, Append(path, S(tree.v[i][1]))),
                          secret)
    [] tree.t = "list" ->
         \A i \in 1..Len(tree.v) :
            SecretCovered(tree.v[i], map, Append(path, N(i - 1)),
                          covered \/ MarkedAt(map, Append(path, N(i - 1))),
                          secret)
    [] OTHER -> TRUE

RECURSIVE Holds(_, _)
\* The string occurs somewhere in the tree as a value.
Holds(tree, secret) ==
  CASE tree.t = "str" -> tree.v = secret
    [] tree.t = "dict" -> \E i \in 1..Len(tree.v) : Holds(tree.v[i][2], secret)
    [] tree.t = "list" -> \E i \in 1..Len(tree.v) : Holds(tree.v[i], secret)
    [] OTHER -> FALSE

\* C1: for every attribute key, at any depth of the before/after trees, that
\* is sensitive (by the sensitivity metadata for that attribute or by the
\* key-name rule), the output of compare_values never contains the key's
\* literal value, also when the key lies in a container that is rendered
\* whole. Stated on the value "zq": when every occurrence of it in `before`
\* is the value of a key sensitive by before_sensitive or by name, and every
\* occurrence in `after` the value of a key sensitive by after_sensitive or
\* by name, the returned text does not contain it.
C1_SensitiveValueNeverShown ==
  (/\ Compared
   /\ Holds(args.before, T_zq) \/ Holds(args.after, T_zq)
   /\ SecretCovered(args.before, args.before_sensitive, <<>>, FALSE, T_zq)
   /\ SecretCovered(args.after, args.after_sensitive, <<>>, FALSE, T_zq))
  => ~Contains(result, T_zq)

\* C2: the sensitivity and unknown flags of every compared attribute, at any
\* depth, are the ones its own metadata entry gives: the entry reached by
\* following the attribute's path down the map, and never a top-level entry
\* for another attribute of the same name.
C2_MapsKeyedByLevel ==
  Compared =>
    \A i \in 1..Len(emitted) :
       /\ emitted[i].before_sensitive_bool
            = (MarkedAt(args.before_sensitive, emitted[i].path)
                 \/ NameIsSensitive(Last(emitted[i].path)))
       /\ emitted[i].after_sensitive_bool
            = (MarkedAt(args.after_sensitive, emitted[i].path)
                 \/ NameIsSensitive(Last(emitted[i].path)))
       /\ emitted[i].after_unknown_bool
            = MarkedAt(args.after_unknown, emitted[i].path)

\* The two shapes of a line whose value sides are all (Sensitive Data).
IsRedactedLine(e) ==
  \E symbol \in {<<"+">>, <<"-">>, <<"~">>} :
     \E tail \in {NL, FORCES_REPLACEMENT \o NL} :
        \/ e.text = Tabs(e.level) \o symbol \o <<" ">> \o Last(e.path).v
                      \o EQUALS \o SENSITIVE_DATA \o tail
        \/ e.text = Tabs(e.level) \o symbol \o <<" ">> \o Last(e.path).v
                      \o EQUALS \o SENSITIVE_DATA \o ARROW \o SENSITIVE_DATA
                      \o tail

\* C3: every key compared by compare_values, at any depth, whose lowercased
\* name contains auth, pass, token, jwt or secret and whose values differ
\* gets one line on which every value side is (Sensitive Data), whatever
\* the sensitivity maps hold and whatever the letter case of the key.
C3_NameRuleRedacts ==
  Compared =>
    /\ \A i \in 1..Len(emitted) :
          NameIsSensitive(Last(emitted[i].path)) =>
             emitted[i].kind = "leaf" /\ IsRedactedLine(emitted[i])
    /\ \A k \in {T_db_password, T_API_TOKEN} :
          (/\ args.before.t = "dict"
           /\ args.after.t = "dict"
           /\ DictHas(args.before, k)
           /\ DictHas(args.after, k)
           /\ ~SameJson(DictGet(args.before, k), DictGet(args.after, k))
           /\ ~PyEq(DictGet(args.before, k), DictGet(args.after, k)))
          => \E i \in 1..Len(emitted) : emitted[i].path = <<S(k)>>

\* C3 witness: an upper-case key caught by the name rule, with no
\* sensitivity entry on either side, was compared and both sides of its
\* line are redacted.
C3_Witness ==
  /\ Compared
  /\ Len(args.before_sensitive.v) = 0
  /\ Len(args.after_sensitive.v) = 0
  /\ \E i \in 1..Len(emitted) :
        /\ emitted[i].path = <<S(T_API_TOKEN)>>
        /\ Contains(emitted[i].text,
                    SENSITIVE_DATA \o ARROW \o SENSITIVE_DATA)

\* The line of an attribute whose after side is (Known After Apply): the
\* key alone, or the key and the rendered before value.
IsKnownAfterApplyLine(e) ==
  \E symbol \in {<<"+">>, <<"-">>, <<"~">>} :
     \E tail \in {NL, FORCES_REPLACEMENT \o NL} :
        \/ e.text = Tabs(e.level) \o symbol \o <<" ">> \o Last(e.path).v
                      \o EQUALS \o KNOWN_AFTER_APPLY \o tail
        \/ e.text = Tabs(e.level) \o symbol \o <<" ">> \o Last(e.path).v
                      \o EQUALS \o RenderValue(e.before_parsed, e.level + 1)
                      \o ARROW \o KNOWN_AFTER_APPLY \o tail

\* C4: every key that after_unknown marks true or [true] and that is not
\* sensitive has (Known After Apply) as the after side of its line: no value
\* taken from `after` or from the unknown map is shown, and no nested block
\* is opened for it. The mark of a key is the entry of after_unknown at the
\* key's path.
C4_UnknownShowsPlaceholder ==
  Compared =>
    \A i \in 1..Len(emitted) :
       (/\ MarkedAt(args.after_unknown, emitted[i].path)
        /\ ~MarkedAt(args.before_sensitive, emitted[i].path)
        /\ ~MarkedAt(args.after_sensitive, emitted[i].path)
        /\ ~NameIsSensitive(Last(emitted[i].path)))
       => emitted[i].kind = "leaf" /\ IsKnownAfterApplyLine(emitted[i])

\* C5: every string longer than 1000 characters, whatever its content, is
\* shown as (Hidden Large Value) and its content never appears: when the
\* value renderer is given it, and when it is the before or the after value
\* of a differing key of compare_values.
C5_LargeValueHidden ==
  /\ (/\ args.op = "render"
      /\ pc = "done"
      /\ args.value.t = "str"
      /\ Len(args.value.v) > LARGE_VALUE_LENGTH)
     => result = HIDDEN_LARGE_VALUE
  /\ Compared =>
       \A i \in 1..Len(emitted) :
          /\ (/\ emitted[i].before_value.t = "str"
              /\ Len(emitted[i].before_value.v) > LARGE_VALUE_LENGTH
              /\ ~emitted[i].before_sensitive_bool)
             => /\ ~Contains(emitted[i].text, emitted[i].before_value.v)
                /\ Contains(emitted[i].text, HIDDEN_LARGE_VALUE)
          /\ (/\ emitted[i].after_value.t = "str"
              /\ Len(emitted[i].after_value.v) > LARGE_VALUE_LENGTH
              /\ ~emitted[i].after_sensitive_bool
              /\ ~emitted[i].after_unknown_bool)
             => /\ ~Contains(emitted[i].text, emitted[i].after_value.v)
                /\ Contains(emitted[i].text, HIDDEN_LARGE_VALUE)

\* The string holds one JSON document.
ParsesAsJson(x) ==
  /\ x.t = "str"
  /\ ParseValueAt(x.v, SkipWs(x.v, 1)).ok
  /\ SkipWs(x.v, ParseValueAt(x.v, SkipWs(x.v, 1)).next) = Len(x.v) + 1

\* Equal values: by deep structural equality, or two strings that parse as
\* embedded JSON to equal values.
EqualValues(a, b) ==
  \/ SameJson(a, b)
  \/ /\ ParsesAsJson(a)
     /\ ParsesAsJson(b)
     /\ SameJson(ParseValueAt(a.v, SkipWs(a.v, 1)).val,
                 ParseValueAt(b.v, SkipWs(b.v, 1)).val)

\* C6: a key whose before and after values are equal, by deep structural
\* equality or as embedded JSON, gets no output: no leaf line and no nested
\* block, not even an empty one.
C6_EqualValuesOmitted ==
  Compared =>
    \A k \in {T_a, T_db_password} :
       (/\ args.before.t = "dict"
        /\ args.after.t = "dict"
        /\ DictHas(args.before, k)
        /\ DictHas(args.after, k)
        /\ EqualValues(DictGet(args.before, k), DictGet(args.after, k)))
       => \A i \in 1..Len(emitted) : emitted[i].path[1] # S(k)

\* Two attributes are the same key.
SameKey(a, b) == a.t = b.t /\ a.v = b.v

\* Two entries were appended by the same call of compare_values: their
\* paths differ at most in the last attribute.
SameCall(e, f) ==
  /\ Len(e.path) = Len(f.path)
  /\ \A n \in 1..(Len(e.path) - 1) : SameKey(e.path[n], f.path[n])

\* Key a comes before key b in ascending order: list indices by number,
\* string keys character by character.
KeyBefore(a, b) ==
  IF a.t = "int" /\ b.t = "int" THEN a.v < b.v
  ELSE a.t = "str" /\ b.t = "str" /\ StrLess(a.v, b.v)

\* The number of lines and block openers emitted for the top-level key k.
LinesFor(k) ==
  Cardinality({i \in 1..Len(emitted) :
                 /\ IsLine(emitted[i])
                 /\ Len(emitted[i].path) = 1
                 /\ SameKey(emitted[i].path[1], k)})

\* C7: the entries emitted by one compare_values call appear in ascending
\* order of the keys (string keys lexicographically, list indices by number,
\* so that index 10 follows index 2), and each key of the union of the
\* before keys and the after keys is visited exactly once: a key whose
\* values differ has one entry, a key whose values are equal has none.
C7_AscendingKeyOrder ==
  Compared =>
    /\ \A i \in 1..Len(emitted) : \A j \in 1..Len(emitted) :
          (/\ i < j
           /\ IsLine(emitted[i])
           /\ IsLine(emitted[j])
           /\ SameCall(emitted[i], emitted[j]))
          => KeyBefore(Last(emitted[i].path), Last(emitted[j].path))
    /\ \A k \in AttributeSet(args.before, args.after) :
          LinesFor(k) =
            IF PyEq(BeforeValue(args.before, k),
                    AfterValue(args.after, args.after_unknown, k))
            THEN 0 ELSE 1

\* C7 witness: lists of eleven positions were compared; the line of index 2
\* was emitted, and the line of index 10 after it.
C7_Witness ==
  /\ Compared
  /\ args.before.t = "list"
  /\ \E i \in 1..Len(emitted) : \E j \in 1..Len(emitted) :
        /\ i < j
        /\ emitted[i].kind = "leaf"
        /\ emitted[j].kind = "leaf"
        /\ emitted[i].path = <<N(2)>>
        /\ emitted[j].path = <<N(10)>>

\* The key is a member of the replacement set handed to compare_values.
InReplaceSet(set, attribute) ==
  /\ set.t = "list"
  /\ \E n \in 1..Len(set.v) : SameJson(set.v[n], attribute)

\* C8: ' -> (Forces Replacement)' is appended only for keys at recursion
\* depth 1 that are members of the replacement set: nothing appended at
\* depth 2 or deeper carries it, even when the nested key's name is in the
\* set.
C8_ForcesReplacementOnlyAtDepthOne ==
  Compared =>
    \A i \in 1..Len(emitted) :
       Contains(emitted[i].text, FORCES_REPLACEMENT)
       => /\ IsLine(emitted[i])
          /\ emitted[i].level = 1
          /\ Len(emitted[i].path) = 1
          /\ InReplaceSet(args.replace_paths, Last(emitted[i].path))

\* C8 witness: the replacement set names the parent p and its child c; the
\* opener of p carries the annotation and the line of the nested c does
\* not.
C8_Witness ==
  /\ Compared
  /\ InReplaceSet(args.replace_paths, S(T_c))
  /\ \E i \in 1..Len(emitted) : \E j \in 1..Len(emitted) :
        /\ emitted[i].kind = "open"
        /\ emitted[i].path = <<S(T_p)>>
        /\ EndsWith(emitted[i].text, FORCES_REPLACEMENT \o NL)
        /\ emitted[j].kind = "leaf"
        /\ emitted[j].path = <<S(T_p), S(T_c)>>
        /\ emitted[j].level = 2
        /\ ~Contains(emitted[j].text, FORCES_REPLACEMENT)

\* A call of parse_changes, at any point of its loop or after it.
Parsing == args.op = "parse_changes"

\* change.replace_paths is a list whose first element is not empty.
HasFirstPath(change) ==
  /\ DictHas(change, K_replace_paths)
  /\ DictGet(change, K_replace_paths).t = "list"
  /\ Len(DictGet(change, K_replace_paths).v) > 0
  /\ DictGet(change, K_replace_paths).v[1].t = "list"
  /\ Len(DictGet(change, K_replace_paths).v[1].v) > 0

FirstPath(change) == DictGet(change, K_replace_paths).v[1]

\* The comparator got `set` as its depth-1 replacement set: among the lines
\* and block openers of the resource change, exactly those of depth-1 keys
\* in the set carry the annotation.
AnnotatedBy(step, set) ==
  /\ SameJson(step.replace_paths, set)
  /\ \A n \in 1..Len(step.out) :
        Contains(step.out[n].text, FORCES_REPLACEMENT)
          = (/\ IsLine(step.out[n])
             /\ step.out[n].level = 1
             /\ InReplaceSet(set, Last(step.out[n].path)))

\* No line of the resource change carries the annotation.
NotAnnotated(step) ==
  \A n \in 1..Len(step.out) :
     ~Contains(step.out[n].text, FORCES_REPLACEMENT)

\* C9 as claimed: for every rendered resource change whose
\* change.replace_paths is a list with a non-empty first element, that
\* first element is the depth-1 replacement set of the comparator, so each
\* differing depth-1 key in it is annotated and the later elements are
\* ignored; an absent, non-list or empty replace_paths gives no annotation.
C9_FirstPathAnnotatesEveryChange ==
  Parsing =>
    \A i \in 1..Len(emitted) :
       emitted[i].outcome = "block"
       => IF HasFirstPath(args.resource_changes[i].change)
          THEN AnnotatedBy(emitted[i],
                           FirstPath(args.resource_changes[i].change))
          ELSE NotAnnotated(emitted[i])

\* C9 amended: for every rendered resource change whose actions hold both
\* create and delete and whose change.replace_paths is a list with a
\* non-empty first element, that first element is the depth-1 replacement
\* set of the comparator; every other rendered resource change, and an
\* absent, non-list or empty replace_paths, gives no annotation.
C9_FirstPathAnnotatesReplacements ==
  Parsing =>
    \A i \in 1..Len(emitted) :
       emitted[i].outcome = "block"
       => IF /\ HasAction(args.resource_changes[i].change, A_create)
             /\ HasAction(args.resource_changes[i].change, A_delete)
             /\ HasFirstPath(args.resource_changes[i].change)
          THEN AnnotatedBy(emitted[i],
                           FirstPath(args.resource_changes[i].change))
          ELSE NotAnnotated(emitted[i])

\* C9 witness: a replacement whose replace_paths holds the paths [a] and
\* [b] was rendered; the line of a carries the annotation and the line of b
\* does not.
C9_Witness ==
  /\ Parsing
  /\ pc = "done"
  /\ Len(emitted) = 1
  /\ emitted[1].outcome = "block"
  /\ HasAction(args.resource_changes[1].change, A_create)
  /\ HasAction(args.resource_changes[1].change, A_delete)
  /\ HasFirstPath(args.resource_changes[1].change)
  /\ Len(DictGet(args.resource_changes[1].change, K_replace_paths).v) = 2
  /\ \E n \in 1..Len(emitted[1].out) : \E m \in 1..Len(emitted[1].out) :
        /\ emitted[1].out[n].path = <<S(T_a)>>
        /\ EndsWith(emitted[1].out[n].text, FORCES_REPLACEMENT \o NL)
        /\ emitted[1].out[m].path = <<S(T_b)>>
        /\ ~Contains(emitted[1].out[m].text, FORCES_REPLACEMENT)
  /\ Contains(result, FORCES_REPLACEMENT)

\* The change symbol of a leaf line: the character after the indentation.
SymbolOf(e) == <<e.text[3 * e.level + 1]>>

\* C10: on every leaf line the change symbol is '+' exactly when the
\* attribute's before value is null and its after value is not, '-' exactly
\* when its before value is not null and its after value is null, and '~'
\* in every other case; a before value that is not null, the string "null"
\* included, never yields '+'.
C10_SymbolByNullness ==
  Compared =>
    \A i \in 1..Len(emitted) :
       emitted[i].kind = "leaf"
       => SymbolOf(emitted[i]) =
            IF /\ emitted[i].before_value.t = "null"
               /\ emitted[i].after_value.t # "null"
            THEN SYMBOL_ADD
            ELSE IF /\ emitted[i].before_value.t # "null"
                    /\ emitted[i].after_value.t = "null"
            THEN SYMBOL_DELETE
            ELSE SYMBOL_UPDATE

\* The text of a leaf line up to its end, for the three shapes: the after
\* value alone, the key and the after value, the key and both values.
ShapeOfAfter(e) ==
  Tabs(e.level) \o SymbolOf(e) \o <<" ">>
    \o AfterRendered(e.after_parsed, e.after_sensitive_bool,
                     e.after_unknown_bool, e.level)

ShapeOfKeyAfter(e) ==
  Tabs(e.level) \o SymbolOf(e) \o <<" ">> \o AttributeRendered(Last(e.path))
    \o EQUALS
    \o AfterRendered(e.after_parsed, e.after_sensitive_bool,
                     e.after_unknown_bool, e.level)

ShapeOfKeyBeforeAfter(e) ==
  Tabs(e.level) \o SymbolOf(e) \o <<" ">> \o AttributeRendered(Last(e.path))
    \o EQUALS
    \o BeforeRendered(e.before_parsed, e.before_sensitive_bool, e.level)
    \o ARROW
    \o AfterRendered(e.after_parsed, e.after_sensitive_bool,
                     e.after_unknown_bool, e.level)

\* The line is `body` and its end: a newline, after the replacement
\* annotation when the key is flagged.
IsLineOf(e, body) ==
  \/ e.text = body \o NL
  \/ e.text = body \o FORCES_REPLACEMENT \o NL

\* C11: a leaf line has exactly one of three shapes: the symbol and the after
\* value when before is null and the key is a list index; the symbol, the
\* key and the after value when before is null and the key is a mapping
\* key; the symbol, the key, the before value and the after value otherwise.
\* Before {a:"x", b:1} and after {a:"y", b:1} give exactly the line
\* ~ a = "x" -> "y", and before null and after {a:1} exactly + a = 1.
C11_LeafLineShapes ==
  Compared =>
    /\ \A i \in 1..Len(emitted) :
          emitted[i].kind = "leaf"
          => IsLineOf(emitted[i],
                      IF emitted[i].before_value.t # "null"
                      THEN ShapeOfKeyBeforeAfter(emitted[i])
                      ELSE IF Last(emitted[i].path).t = "int"
                      THEN ShapeOfAfter(emitted[i])
                      ELSE ShapeOfKeyAfter(emitted[i]))
    /\ (/\ SameJson(args.before, Obj(<< <<T_a, S(T_x)>>, <<T_b, N(1)>> >>))
        /\ SameJson(args.after, Obj(<< <<T_a, S(T_y)>>, <<T_b, N(1)>> >>))
        /\ args.replace_paths.t = "null")
       => result = Tabs(1) \o <<"~", " ", "a", " ", "=", " ", "\"", "x", "\"",
                                " ", "-", ">", " ", "\"", "y", "\"", "\n">>
    /\ (/\ args.before.t = "null"
        /\ SameJson(args.after, Obj(<< <<T_a, N(1)>> >>)))
       => result = Tabs(1) \o <<"+", " ", "a", " ", "=", " ", "1", "\n">>

\* The call compares two mappings whose attribute `list` holds a list of
\* integers on both sides.
ListAttributeCompared ==
  /\ Compared
  /\ args.before.t = "dict"
  /\ args.after.t = "dict"
  /\ DictHas(args.before, T_list)
  /\ DictHas(args.after, T_list)
  /\ DictGet(args.before, T_list).t = "list"
  /\ DictGet(args.after, T_list).t = "list"

OldList == DictGet(args.before, T_list).v
NewList == DictGet(args.after, T_list).v

\* before {list:[1,2]} is compared with after {list:[1,3]}.
ListScenario ==
  /\ ListAttributeCompared
  /\ SameJson(L(OldList), L(<<N(1), N(2)>>))
  /\ SameJson(L(NewList), L(<<N(1), N(3)>>))

\* The entries emitted for index n of the attribute `list`.
LinesOfIndex(n) ==
  {i \in 1..Len(emitted) :
     /\ Len(emitted[i].path) = 2
     /\ emitted[i].path[2].t = "int"
     /\ emitted[i].path[2].v = n}

\* The line of a changed index: the old and the new element, after the
\* index when with_index.
ChangedIndexLine(n, with_index) ==
  Tabs(2) \o SYMBOL_UPDATE \o <<" ">>
    \o (IF with_index THEN IntToChars(n) \o EQUALS ELSE <<>>)
    \o IntToChars(OldList[n + 1].v) \o ARROW \o IntToChars(NewList[n + 1].v)
    \o NL

\* Inside the list-valued attribute an index whose element is unchanged
\* emits nothing, and an index whose element changed emits one line.
ListIndexLines(with_index) ==
  \A n \in 0..(Len(OldList) - 1) :
     n < Len(NewList) =>
       IF OldList[n + 1].v = NewList[n + 1].v
       THEN LinesOfIndex(n) = {}
       ELSE /\ Cardinality(LinesOfIndex(n)) = 1
            /\ \A i \in LinesOfIndex(n) :
                  /\ emitted[i].kind = "leaf"
                  /\ emitted[i].text = ChangedIndexLine(n, with_index)

\* C12 as claimed: comparing before {list:[1,2]} with after {list:[1,3]}
\* yields exactly the block list = [ / ~ 1 -> 3 / ]: an unchanged index
\* emits nothing and a changed index one line showing the old and the new
\* element.
C12_ListBlockAsClaimed ==
  /\ ListScenario
     => result = Tabs(1) \o T_list \o <<" ", "=", " ", "[", "\n">>
                   \o Tabs(2) \o <<"~", " ", "1", " ", "-", ">", " ", "3", "\n">>
                   \o Tabs(1) \o <<"]", "\n">>
  /\ ListAttributeCompared => ListIndexLines(FALSE)

\* C12 amended: comparing before {list:[1,2]} with after {list:[1,3]} yields
\* exactly the block list = [ / ~ 1 = 2 -> 3 / ]: an unchanged index emits
\* nothing and a changed index one line showing the index, the old element
\* and the new element.
C12_ListBlock ==
  /\ ListScenario
     => result = Tabs(1) \o T_list \o <<" ", "=", " ", "[", "\n">>
                   \o Tabs(2) \o <<"~", " ", "1", " ", "=", " ", "2", " ",
                                   "-", ">", " ", "3", "\n">>
                   \o Tabs(1) \o <<"]", "\n">>
  /\ ListAttributeCompared => ListIndexLines(TRUE)

\* C12 witness: the two lists were compared, a block was opened for the
\* attribute, and the only line in it is that of index 1.
C12_Witness ==
  /\ ListScenario
  /\ Len(emitted) = 3
  /\ emitted[1].kind = "open"
  /\ emitted[2].kind = "leaf"
  /\ emitted[2].path = <<S(T_list), N(1)>>
  /\ emitted[3].kind = "close"

\* C13: compare_values never raises: for every pair of before and after
\* values, a list compared against a mapping included (at the top level or
\* for a nested attribute), the call returns a string.
C13_CompareNeverRaises ==
  args.op = "compare_values" => pc # "raised"

\* The action is a member of the resource change's action set.
Acts(rc, action) ==
  \E n \in 1..Len(DictGet(rc.change, K_actions).v) :
     SameJson(DictGet(rc.change, K_actions).v[n], S(action))

\* The block of a resource change: the four header lines in the order
\* Provider, Resource Type, Resource Identifier, Message, the line
\* <symbol> resource "<type>" "<name>" {, the diff body and the closing brace.
BlockOf(rc, symbol, message, body) ==
  <<"\n">>
    \o <<"#", " ", "P", "r", "o", "v", "i", "d", "e", "r", ":", " ", "[">>
    \o rc.provider_name \o <<"]", "\n">>
    \o <<"#", " ", "R", "e", "s", "o", "u", "r", "c", "e", " ", "T", "y", "p",
         "e", ":", " ", "[">>
    \o rc.type \o <<"]", "\n">>
    \o <<"#", " ", "R", "e", "s", "o", "u", "r", "c", "e", " ", "I", "d", "e",
         "n", "t", "i", "f", "i", "e", "r", ":", " ", "[">>
    \o rc.address \o <<"]", "\n">>
    \o <<"#", " ", "M", "e", "s", "s", "a", "g", "e", ":", " ">>
    \o message \o <<"\n">>
    \o symbol \o <<" ", "r", "e", "s", "o", "u", "r", "c", "e", " ", "\"">>
    \o rc.type \o <<"\"", " ", "\"">> \o rc.name \o <<"\"", " ", "{", "\n">>
    \o body \o <<"}", "\n">>

\* C14: parse_changes picks the header of each rendered block from the
\* action set alone: create and delete together give '+/-' and 'This
\* resource must be replaced.', create without delete '+' and 'This resource
\* will be created as defined.', delete without create '-' and 'This
\* resource will be destroyed.', update (with neither) '~' and 'This
\* resource will be updated in-place.'; the block is the four header lines,
\* the resource line, the diff body and a closing brace.
C14_HeaderByActions ==
  Parsing =>
    \A i \in 1..Len(emitted) :
       emitted[i].outcome = "block"
       => emitted[i].text =
            IF /\ Acts(args.resource_changes[i], A_create)
               /\ Acts(args.resource_changes[i], A_delete)
            THEN BlockOf(args.resource_changes[i], <<"+", "/", "-">>,
                         MESSAGE_REPLACE, TextOf(emitted[i].out))
            ELSE IF Acts(args.resource_changes[i], A_create)
            THEN BlockOf(args.resource_changes[i], <<"+">>, MESSAGE_ADD,
                         TextOf(emitted[i].out))
            ELSE IF Acts(args.resource_changes[i], A_delete)
            THEN BlockOf(args.resource_changes[i], <<"-">>, MESSAGE_DELETE,
                         TextOf(emitted[i].out))
            ELSE BlockOf(args.resource_changes[i], <<"~">>, MESSAGE_UPDATE,
                         TextOf(emitted[i].out))

\* C14 witness: a payload of two resource changes was rendered, a
\* replacement and then an update, and the returned text holds both
\* messages.
C14_Witness ==
  /\ Parsing
  /\ pc = "done"
  /\ Len(emitted) = 2
  /\ emitted[1].outcome = "block"
  /\ emitted[2].outcome = "block"
  /\ Acts(args.resource_changes[1], A_create)
  /\ Acts(args.resource_changes[1], A_delete)
  /\ Acts(args.resource_changes[2], A_update)
  /\ Contains(result, MESSAGE_REPLACE)
  /\ Contains(result, MESSAGE_UPDATE)

\* A call of parse_changes that returned.
Parsed == Parsing /\ pc = "done"

\* The resource change contributes no block: its actions hold no-op, or
\* read and none of create, delete and update.
IsSkipped(rc) ==
  \/ Acts(rc, A_no_op)
  \/ /\ Acts(rc, A_read)
     /\ ~Acts(rc, A_create)
     /\ ~Acts(rc, A_delete)
     /\ ~Acts(rc, A_update)

\* C15: the output of parse_changes is the fixed preamble followed by one
\* block per resource change that is not a no-op, the blocks in the order
\* of the resource changes in the payload; a resource change whose actions
\* hold no-op, and one whose only action is read, contributes no text and
\* does not stop the run.
C15_PreambleThenBlocksInOrder ==
  /\ Parsing =>
       \A i \in 1..Len(emitted) :
          IsSkipped(args.resource_changes[i])
          => emitted[i].outcome = "none" /\ emitted[i].text = <<>>
  /\ Parsed =>
       /\ Len(emitted) = Len(args.resource_changes)
       /\ result = Tail(PREAMBLE) \o TextOf(emitted) \o NL
       /\ \A i \in 1..Len(emitted) :
             ~IsSkipped(args.resource_changes[i])
             => emitted[i].outcome = "block" /\ Len(emitted[i].text) > 0

\* C15 witness: a payload of a read followed by a deletion was rendered to
\* the end: the read left no text and the deletion a block.
C15_Witness ==
  /\ Parsed
  /\ Len(emitted) = 2
  /\ Acts(args.resource_changes[1], A_read)
  /\ emitted[1].text = <<>>
  /\ Acts(args.resource_changes[2], A_delete)
  /\ emitted[2].outcome = "block"
  /\ EndsWith(result, emitted[2].text \o NL)

\* The actions of the resource change hold none of no-op, create, delete,
\* update and read.
IsUnrecognised(rc) ==
  /\ ~Acts(rc, A_no_op)
  /\ ~Acts(rc, A_create)
  /\ ~Acts(rc, A_delete)
  /\ ~Acts(rc, A_update)
  /\ ~Acts(rc, A_read)

\* C16: a resource change whose actions hold none of no-op, create, delete,
\* update and read ends the run: the iteration that meets it leaves
\* parse_changes by sys.exit(1), it is the last iteration (no later resource
\* change is processed), parse_changes returns nothing, and nothing is
\* written to the plan summary file, the blocks of earlier resource changes
\* included.  No other resource change of these payloads ends the run so.
C16_UnrecognisedActionIsFatal ==
  Parsing =>
    /\ \A i \in 1..Len(emitted) :
          IF IsUnrecognised(args.resource_changes[i])
            THEN /\ emitted[i].outcome = "exit"
                 /\ emitted[i].text = <<>>
                 /\ pc = "exit"
                 /\ i = Len(emitted)
                 /\ idx = i
            ELSE emitted[i].outcome # "exit"
    /\ pc = "exit" => IsUnrecognised(args.resource_changes[idx])
    /\ (\E i \in 1..Len(args.resource_changes) :
          IsUnrecognised(args.resource_changes[i]))
       => pc \notin {"done", "written"} /\ written = <<>>

\* C16 witness: the first resource change was rendered as a block, the
\* second has an unrecognised action and ended the run; the block is in the
\* local result and the plan summary file is empty.
C16_Witness ==
  /\ Parsing
  /\ pc = "exit"
  /\ Len(args.resource_changes) = 2
  /\ Len(emitted) = 2
  /\ emitted[1].outcome = "block"
  /\ EndsWith(result, emitted[1].text)
  /\ IsUnrecognised(args.resource_changes[2])
  /\ written = <<>>

\* The field of the change is absent or is not a mapping.
MissingMap(change, key) ==
  ~(DictHas(change, key) /\ DictGet(change, key).t = "dict")

\* The change with an empty mapping in the place of a field that is absent
\* or is not a mapping.
WithEmptyMap(change, key) ==
  IF MissingMap(change, key) THEN D(DictSet(change.v, key, D(<<>>)))
  ELSE change

\* The resource change with an explicit empty mapping for each of
\* before_sensitive, after_sensitive and after_unknown that it lacks.
WithEmptyMaps(rc) ==
  [rc EXCEPT !.change =
     WithEmptyMap(WithEmptyMap(WithEmptyMap(rc.change, K_before_sensitive),
                               K_after_sensitive),
                  K_after_unknown)]

\* C17: a resource change whose before_sensitive, after_sensitive or
\* after_unknown is absent or is not a mapping goes through its iteration of
\* parse_changes without an exception, and the iteration does exactly what
\* it does for the same resource change with an empty mapping in the place
\* of each such field.
C17_MissingMapsAreEmpty ==
  Parsing =>
    \A i \in 1..Len(emitted) :
       (\/ MissingMap(args.resource_changes[i].change, K_before_sensitive)
        \/ MissingMap(args.resource_changes[i].change, K_after_sensitive)
        \/ MissingMap(args.resource_changes[i].change, K_after_unknown))
       => /\ emitted[i].outcome # "raised"
          /\ emitted[i] = ResourceStep(WithEmptyMaps(args.resource_changes[i]))

\* C17 witness: an update was rendered whose before_sensitive marks a,
\* whose after_sensitive is the boolean false and whose after_unknown is
\* absent: the old value of a is redacted and its new value is shown.
C17_Witness ==
  /\ Parsed
  /\ Len(emitted) = 1
  /\ ~MissingMap(args.resource_changes[1].change, K_before_sensitive)
  /\ DictHas(args.resource_changes[1].change, K_after_sensitive)
  /\ DictGet(args.resource_changes[1].change, K_after_sensitive) = B(FALSE)
  /\ ~DictHas(args.resource_changes[1].change, K_after_unknown)
  /\ emitted[1].outcome = "block"
  /\ Contains(emitted[1].text, SENSITIVE_DATA \o <<" ", "-", ">", " ", "\"">> \o T_zq)

\* C18: no step of a call of compare_values or parse_changes (nor of the
\* value renderer or the write of the summary) changes the arguments of the
\* call: the before and after trees, the sensitivity and unknown maps,
\* replace_paths and the resource changes are after every step what they
\* were before it; decoding embedded JSON changes local values only.
C18_InputsUnchanged == [][args' = args]_vars

\* C18 witness: compare_values returned after decoding the embedded JSON of
\* attribute a on both sides (it rendered a as a list block), and the
\* arguments still hold the two strings.
C18_Witness ==
  /\ Compared
  /\ args.before.t = "dict"
  /\ args.after.t = "dict"
  /\ DictHas(args.before, T_a)
  /\ DictHas(args.after, T_a)
  /\ DictGet(args.before, T_a) = S(T_json_list)
  /\ DictGet(args.after, T_a) = S(T_json_list_spaced)
  /\ Contains(result, <<"a", " ", "=", " ", "[", "\n">>)

\* A call of the value renderer that returned.
Rendered == args.op = "render" /\ pc = "done"

\* The characters that make a key quoted, as the rule lists them:
\* @ ! # $ % ^ & * ( ) < > ? / \ | } { ~ :
LISTED_CHARACTERS ==
  {"@", "!", "#", "$", "%", "^", "&", "*", "(", ")", "<", ">", "?", "/",
   "\\", "|", "}", "{", "~", ":"}

\* A key as the rule writes it: double-quoted exactly when it holds one of
\* the listed characters.
StatedKey(key) ==
  IF \E i \in 1..Len(key) : key[i] \in LISTED_CHARACTERS
  THEN <<"\"">> \o key \o <<"\"">>
  ELSE key

\* A scalar as the rules write it: a string double-quoted (one longer than
\* 1000 characters hidden, the rule that comes first), a boolean in lower
\* case, null, and any other value by its default text.
StatedScalar(value) ==
  CASE value.t = "str" ->
         IF Len(value.v) > LARGE_VALUE_LENGTH THEN HIDDEN_LARGE_VALUE
         ELSE <<"\"">> \o value.v \o <<"\"">>
    [] value.t = "bool" ->
         IF value.v THEN <<"t", "r", "u", "e">> ELSE <<"f", "a", "l", "s", "e">>
    [] value.t = "null" -> <<"n", "u", "l", "l">>
    [] OTHER -> IntToChars(value.v)

RECURSIVE StatedText(_, _)
RECURSIVE StatedLines(_, _, _)

\* The lines of a non-empty container from item i: `key = <rendered value>`
\* for a mapping, `<rendered value>` for a list, one indent deeper than the
\* container.
StatedLines(data, i, level) ==
  IF i > Len(data.v) THEN <<>>
  ELSE Tabs(level + 1)
         \o (IF data.t = "dict"
             THEN StatedKey(data.v[i][1]) \o <<" ", "=", " ">>
                    \o StatedText(data.v[i][2], level + 1)
             ELSE StatedText(data.v[i], level + 1))
         \o <<"\n">> \o StatedLines(data, i + 1, level)

\* The text of a value as the rules give it, a container opened without a
\* leading indent and closed at its own indent.
StatedText(value, level) ==
  CASE value.t \in {"dict", "list"} /\ Len(value.v) = 0 ->
         IF value.t = "dict" THEN <<"{", "}">> ELSE <<"[", "]">>
    [] value.t \in {"dict", "list"} /\ Len(value.v) > 0 ->
         (IF value.t = "dict" THEN <<"{", "\n">> ELSE <<"[", "\n">>)
           \o StatedLines(value, 1, level) \o Tabs(level)
           \o (IF value.t = "dict" THEN <<"}">> ELSE <<"]">>)
    [] OTHER -> StatedScalar(value)

\* C19: the value renderer returns for every value, and what it returns is
\* the text of the stated rules: {} and [] for the empty containers; for a
\* non-empty mapping "{", one line `key = <rendered value>` per key in
\* insertion order, the key double-quoted exactly when it contains one of
\* @!#$%^&*()<>?/\|}{~: , and "}"; the same for a list with "[", "]" and no
\* keys; strings double-quoted, booleans true/false, null as null, any
\* other value by its default text.
C19_RendererFollowsRules ==
  /\ args.op = "render" => pc \in {"start", "done"}
  /\ Rendered =>
       result = (IF args.value.t \in {"dict", "list"} /\ args.start_with_indention
                 THEN Tabs(args.indention_level) ELSE <<>>)
                  \o StatedText(args.value, args.indention_level)

\* The value read back from a rendered scalar: null, true and false name
\* themselves, a text between double quotes is the string between its first
\* and last character, and nothing else is the text of a string, boolean or
\* null.
Reparsed(text) ==
  IF text = <<"n", "u", "l", "l">> THEN Null
  ELSE IF text = <<"t", "r", "u", "e">> THEN B(TRUE)
  ELSE IF text = <<"f", "a", "l", "s", "e">> THEN B(FALSE)
  ELSE IF Len(text) >= 2 /\ text[1] = "\"" /\ text[Len(text)] = "\""
  THEN S(SubSeq(text, 2, Len(text) - 1))
  ELSE [t |-> "unparsed"]

\* The scalar values among the rendered ones.
IsScalar(value) == value.t \in {"str", "bool", "null", "int"}

\* A call of the value renderer on a string, a boolean or null returned.
RenderedScalar == Rendered /\ args.value.t \in {"str", "bool", "null"}

\* A string longer than 1000 characters.
IsLongString(value) == value.t = "str" /\ Len(value.v) > LARGE_VALUE_LENGTH

\* C20, as claimed: a rendered string, boolean or null is read back from its
\* text as the value it was, and no different scalar value renders to the
\* same text.
C20_ScalarsRoundTrip ==
  RenderedScalar =>
    /\ Reparsed(result) = args.value
    /\ \A w \in {v \in RenderValues : IsScalar(v)} :
          w # args.value => RenderValue(w, 1) # result

\* C20, amended: a rendered boolean, null or string of at most 1000
\* characters is read back from its text as the value it was, a string
\* through its first and last double quote; a longer string is rendered as
\* (Hidden Large Value) and is not read back; two different scalar values
\* render to the same text only when both are strings of more than 1000
\* characters.
C20_ShownScalarsRoundTrip ==
  RenderedScalar =>
    /\ IF IsLongString(args.value)
         THEN result = HIDDEN_LARGE_VALUE
         ELSE Reparsed(result) = args.value
    /\ \A w \in {v \in RenderValues : IsScalar(v)} :
          (w # args.value /\ RenderValue(w, 1) = result)
          => IsLongString(w) /\ IsLongString(args.value)

\* C20 witness: a string of exactly 1000 characters was rendered between
\* double quotes and is read back.
C20_Witness ==
  /\ RenderedScalar
  /\ args.value.t = "str"
  /\ Len(args.value.v) = LARGE_VALUE_LENGTH
  /\ Len(result) = LARGE_VALUE_LENGTH + 2
  /\ Reparsed(result) = args.value

\* The text begins with exactly n spaces.
BeginsWithSpaces(text, n) ==
  /\ Len(text) > n
  /\ \A k \in 1..n : text[k] = " "
  /\ text[n + 1] # " "

\* Entry j is the closer of the block that entry i opens.
ClosesBlock(i, j) ==
  /\ j > i
  /\ emitted[j].kind = "close"
  /\ emitted[j].path = emitted[i].path
  /\ \A k \in (i + 1)..(j - 1) :
        /\ Len(emitted[k].path) > Len(emitted[i].path)
        /\ SubSeq(emitted[k].path, 1, Len(emitted[i].path)) = emitted[i].path

\* C21: every leaf line, opener and closer that compare_values appends at
\* recursion depth d (the number of attributes from the outermost tree down
\* to the key, 1 for the outermost call) begins with exactly 3*d spaces;
\* every opener has its closer at the same depth, and what lies between is
\* at depth d+1 or deeper, the block's own keys at d+1.
C21_ThreeSpacesPerLevel ==
  Compared =>
    \A i \in 1..Len(emitted) :
       /\ emitted[i].level = Len(emitted[i].path)
       /\ BeginsWithSpaces(emitted[i].text, 3 * Len(emitted[i].path))
       /\ emitted[i].kind = "open" =>
            \E j \in 1..Len(emitted) :
               /\ ClosesBlock(i, j)
               /\ BeginsWithSpaces(emitted[j].text, 3 * Len(emitted[i].path))
               /\ \A k \in (i + 1)..(j - 1) :
                     BeginsWithSpaces(emitted[k].text, 3 * Len(emitted[k].path))

\* C21 witness: a block at depth 2 inside a block at depth 1 holds a line
\* at depth 3, which begins with nine spaces.
C21_Witness ==
  /\ Compared
  /\ Len(emitted) >= 5
  /\ emitted[1].kind = "open"
  /\ emitted[2].kind = "open"
  /\ Len(emitted[2].path) = 2
  /\ emitted[3].kind = "leaf"
  /\ BeginsWithSpaces(emitted[3].text, 9)

RECURSIVE Size(_)
RECURSIVE SizeOfItems(_, _, _)

\* The size of the items of a container from item i: a key counts its
\* characters.
SizeOfItems(value, i, keyed) ==
  IF i > Len(value.v) THEN 0
  ELSE (IF keyed THEN Len(value.v[i][1]) + Size(value.v[i][2])
        ELSE Size(value.v[i]))
         + SizeOfItems(value, i + 1, keyed)

\* The size of a JSON value: one for the value itself, plus the characters
\* of a string, plus the sizes of the items of a container.
Size(value) ==
  CASE value.t = "str" -> 1 + Len(value.v)
    [] value.t = "dict" -> 1 + SizeOfItems(value, 1, TRUE)
    [] value.t = "list" -> 1 + SizeOfItems(value, 1, FALSE)
    [] OTHER -> 1

\* The `before` of the call of compare_values that appended entry i: the
\* outermost argument, or the decoded before value of the enclosing block.
EnclosingBefore(i) ==
  IF Len(emitted[i].path) = 1 THEN args.before
  ELSE emitted[CHOOSE j \in 1..(i - 1) :
                 /\ emitted[j].kind = "open"
                 /\ emitted[j].path =
                      SubSeq(emitted[i].path, 1, Len(emitted[i].path) - 1)
              ].before_parsed

\* The depth of the call of compare_values that appended entry i.
EnclosingLevel(i) ==
  IF Len(emitted[i].path) = 1 THEN 1
  ELSE emitted[CHOOSE j \in 1..(i - 1) :
                 /\ emitted[j].kind = "open"
                 /\ emitted[j].path =
                      SubSeq(emitted[i].path, 1, Len(emitted[i].path) - 1)
              ].level + 1

\* Every recursive call that was made took a before value that is strictly
\* smaller than the `before` of its caller, decoding embedded JSON never
\* making it larger, and ran one level deeper than its caller.
RecursionDescends ==
  Compared =>
    \A i \in 1..Len(emitted) :
       /\ emitted[i].level = EnclosingLevel(i)
       /\ emitted[i].kind = "open" =>
            /\ Size(emitted[i].before_parsed) <= Size(emitted[i].before_value)
            /\ Size(emitted[i].before_value) < Size(EnclosingBefore(i))

\* C22: a call of compare_values that was started ends, by returning or by
\* raising, and every recursive call in it is made one level deeper on a
\* value strictly smaller than the before value of its caller, embedded
\* JSON included.
C22_CompareTerminates ==
  /\ []RecursionDescends
  /\ (args.op = "compare_values" /\ pc = "start") ~> (pc \in {"done", "raised"})

\* C22 witness: a call returned that recursed into a before value held as
\* embedded JSON and decoded to a list.
C22_Witness ==
  /\ Compared
  /\ \E i \in 1..Len(emitted) :
        /\ emitted[i].kind = "open"
        /\ emitted[i].before_value.t = "str"
        /\ emitted[i].before_parsed.t = "list"
        /\ Size(emitted[i].before_parsed) < Size(emitted[i].before_value)

\* The key of entry e may be recursed into: its decoded before value is a
\* non-empty mapping or list, its decoded after value is not null, and the
\* key is neither sensitive on either side nor unknown. The marks of a key
\* are the entries of the maps at the key's path.
MayRecurse(e) ==
  /\ e.before_parsed.t \in {"dict", "list"}
  /\ Len(e.before_parsed.v) > 0
  /\ e.after_parsed.t # "null"
  /\ ~SensitiveAt(args.before_sensitive, e.path)
  /\ ~SensitiveAt(args.after_sensitive, e.path)
  /\ ~MarkedAt(args.after_unknown, e.path)

\* C23: compare_values opens a nested block for a key only when the key's
\* before value is a non-empty mapping or list, its after value is not null
\* and the key is neither sensitive on either side nor unknown; a differing
\* key in any other case, a sensitive or unknown key whose value is a
\* container in particular, has exactly one leaf line and no block.
C23_RecursesOnlyIntoPlainContainers ==
  Compared =>
    \A i \in 1..Len(emitted) :
       ~MayRecurse(emitted[i])
       => /\ emitted[i].kind = "leaf"
          /\ \A j \in 1..Len(emitted) :
                emitted[j].path = emitted[i].path => j = i

\* A run of github-pull-request-comment that ended without an error.
Commented == args.op = "pull_request_comment" /\ pc = "done"

\* The listed comments whose body contains the label, for a label that is
\* given (not None and not empty).
Matches ==
  IF Truthy(args.label)
  THEN {i \in 1..Len(args.comments) : Contains(args.comments[i], args.label.v)}
  ELSE {}

\* C24: a run of github-pull-request-comment never makes more than one
\* write on the pull request, and a run that succeeded made exactly one:
\* with a label and a comment whose body contains it, the first such
\* comment in listing order was edited and none was created; with no label
\* or no matching comment, one comment was created and none was edited.
C24_OneWritePerRun ==
  args.op = "pull_request_comment" =>
    /\ Len(emitted) <= 1
    /\ Commented =>
         /\ Len(emitted) = 1
         /\ emitted[1].body = args.comment
         /\ IF Matches # {}
            THEN /\ emitted[1].kind = "edit"
                 /\ emitted[1].target \in Matches
                 /\ \A i \in Matches : emitted[1].target <= i
            ELSE emitted[1].kind = "create"

\* C24 witness: of three comments the second and the third contain the
\* label; the run edited the second.
C24_Witness ==
  /\ Commented
  /\ Matches = {2, 3}
  /\ emitted = <<Write("edit", 2, args.comment)>>

\* The resource counts of main were put out.
CountsPutOut == args.op = "resource_counts" /\ pc = "done"

\* The text of a JSON line of the given type that carries hook.action.
HookLine(type, action) ==
  <<"{", "\"", "t", "y", "p", "e", "\"", ":", "\"">> \o type
    \o <<"\"", ",", "\"", "h", "o", "o", "k", "\"", ":", "{", "\"", "a",
         "c", "t", "i", "o", "n", "\"", ":", "\"">> \o action
    \o <<"\"", "}", "}">>

\* The number of lines of the log that are of the type of the execution
\* target (planned_change for plan, apply_complete for apply) and carry the
\* given hook.action.
Recounted(action) ==
  Cardinality({i \in 1..Len(Split(args.log)) :
                 Split(args.log)[i]
                   = HookLine(IF args.execution_target = <<"p", "l", "a", "n">>
                              THEN T_planned_change ELSE T_apply_complete,
                              action)})

\* C25: when one of the four counts of the API is null, the final counts
\* are the numbers of log lines of the target's type (planned_change for
\* plan, apply_complete for apply) that carry hook.action import, create,
\* update and delete, the counts of the API being dropped; when none is
\* null the final counts are those of the API; the output `changes` is
\* "true" exactly when one of the four final counts is not zero.
C25_CountsFromApiOrLog ==
  CountsPutOut =>
    /\ IF \E f \in {"to_import", "to_add", "to_change", "to_destroy"} :
            args.counts[f] = Null
       THEN result = Counts(Recounted(<<"i", "m", "p", "o", "r", "t">>),
                            Recounted(<<"c", "r", "e", "a", "t", "e">>),
                            Recounted(<<"u", "p", "d", "a", "t", "e">>),
                            Recounted(<<"d", "e", "l", "e", "t", "e">>))
       ELSE result = [f \in {"to_import", "to_add", "to_change", "to_destroy"}
                        |-> args.counts[f].v]
    /\ emitted[1][1] = "changes"
    /\ emitted[1][2] = <<"t", "r", "u", "e">>
         <=> \E f \in {"to_import", "to_add", "to_change", "to_destroy"} :
                result[f] # 0
    /\ emitted[1][2] = <<"f", "a", "l", "s", "e">>
         <=> \A f \in {"to_import", "to_add", "to_change", "to_destroy"} :
                result[f] = 0

\* C25 witness: the API had no count of imports and counted two
\* destructions; the plan log holds an apply_complete line and a
\* planned_change line that creates: the final counts are one addition and
\* nothing else, and changes is "true".
C25_Witness ==
  /\ CountsPutOut
  /\ args.counts = Counts(Null, N(1), N(0), N(2))
  /\ args.execution_target = T_plan
  /\ Split(args.log) = <<LINE_APPLY_DELETE, LINE_PLAN_CREATE>>
  /\ result = Counts(0, 1, 0, 0)
  /\ emitted[1] = <<"changes", <<"t", "r", "u", "e">> >>

\* The entry of the unknown map for the attribute, null when it has none.
UnknownEntry(map, attribute) ==
  IF map.t = "dict" /\ attribute.t = "str" /\ DictHas(map, attribute.v)
  THEN DictGet(map, attribute.v)
  ELSE Null

\* C26: when the after value of a call of compare_values is a scalar
\* (neither a mapping nor a list), the after value of every key of the call
\* is the key's entry in after_unknown, or null: nothing of the scalar's
\* own content is taken as the new value of a key. Comparing the list
\* [1,2] with the string "xy" never shows a character of "xy".
C26_ScalarAfterGivesNoValues ==
  (Compared /\ args.after.t \notin {"dict", "list"}) =>
    \A i \in 1..Len(emitted) :
       Len(emitted[i].path) = 1
       => emitted[i].after_value
            = UnknownEntry(args.after_unknown, emitted[i].path[1])

\* The value of a key on the before side: missing is null.
StatedBefore(key) ==
  IF DictHas(args.before, key) THEN DictGet(args.before, key) ELSE Null

\* The value of a key on the after side: missing is the key's entry in
\* after_unknown, else null.
StatedAfter(key) ==
  IF DictHas(args.after, key) THEN DictGet(args.after, key)
  ELSE UnknownEntry(args.after_unknown, S(key))

\* The keys of the union of two mappings.
UnionKeys ==
  {args.before.v[i][1] : i \in 1..Len(args.before.v)}
    \cup {args.after.v[i][1] : i \in 1..Len(args.after.v)}

\* C27: the diff is complete: every key of the union of before and after
\* whose two values are different JSON values (a boolean differs from a
\* number: true from 1, false from 0) gets output from compare_values, a
\* leaf line or a nested block.
C27_DifferentValuesAreShown ==
  (Compared /\ args.before.t = "dict" /\ args.after.t = "dict") =>
    \A key \in UnionKeys :
       ~SameJson(StatedBefore(key), StatedAfter(key))
       => \E i \in 1..Len(emitted) :
             IsLine(emitted[i]) /\ emitted[i].path = <<S(key)>>

\* A key with a non-null value in before, absent from after, marked true
\* in after_unknown and sensitive on neither side.
IsReplacedByUnknown(key) ==
  /\ DictHas(args.before, key)
  /\ DictGet(args.before, key).t # "null"
  /\ ~DictHas(args.after, key)
  /\ IsTrue(UnknownEntry(args.after_unknown, S(key)))
  /\ ~SensitiveAt(args.before_sensitive, <<S(key)>>)
  /\ ~SensitiveAt(args.after_sensitive, <<S(key)>>)

\* The line ~ <key> = <before> -> (Known After Apply)
KnownAfterApplyUpdate(key) ==
  Tabs(1) \o SYMBOL_UPDATE \o <<" ">> \o StatedKey(key) \o EQUALS
    \o RenderValue(DictGet(args.before, key), 2) \o ARROW
    \o KNOWN_AFTER_APPLY

\* C28: an attribute that has a non-null value in before, is absent from
\* after, is marked true in after_unknown and is not sensitive produces
\* exactly one line, ~ <key> = <before> -> (Known After Apply), whatever
\* the type of its before value, the boolean true included.
C28_UnknownReplacesAnyValue ==
  (Compared /\ args.before.t = "dict" /\ args.after.t = "dict") =>
    \A key \in UnionKeys :
       IsReplacedByUnknown(key)
       => \E i \in 1..Len(emitted) :
             /\ emitted[i].path = <<S(key)>>
             /\ IsLineOf(emitted[i], KnownAfterApplyUpdate(key))
             /\ \A j \in 1..Len(emitted) :
                   emitted[j].path = <<S(key)>> => j = i

\* The text of a leaf line up to the first of its two sides.
HeadOf(e) ==
  Tabs(e.level) \o SymbolOf(e) \o <<" ">>
    \o AttributeRendered(Last(e.path)) \o EQUALS

\* The texts that stand for a value that is not shown.
PLACEHOLDERS == {SENSITIVE_DATA, KNOWN_AFTER_APPLY, HIDDEN_LARGE_VALUE}

\* The line is <symbol> <key> = X -> X for a text X that is no placeholder.
ShowsSameText(e) ==
  \E tail \in {NL, FORCES_REPLACEMENT \o NL} :
     LET head == HeadOf(e)
         n == Len(e.text) - Len(head) - Len(ARROW) - Len(tail)
     IN /\ n >= 0
        /\ n % 2 = 0
        /\ SubSeq(e.text, Len(head) + 1, Len(head) + (n \div 2))
              \notin PLACEHOLDERS
        /\ e.text = head
                      \o SubSeq(e.text, Len(head) + 1, Len(head) + (n \div 2))
                      \o ARROW
                      \o SubSeq(e.text, Len(head) + 1, Len(head) + (n \div 2))
                      \o tail

\* C29: no line <symbol> <key> = X -> Y of compare_values shows the same
\* text on both sides, unless the text is one of the placeholders
\* (Sensitive Data), (Known After Apply), (Hidden Large Value): a string
\* and a number such as "1" and 1 are rendered distinguishably.
C29_SidesDiffer ==
  Compared =>
    \A i \in 1..Len(emitted) :
       emitted[i].kind = "leaf" => ~ShowsSameText(emitted[i])

\* The values a sensitive key is given in the second of two calls.
SecretValues == {B(TRUE), N(1), S(T_x), S(T_zq), S(T_null)}

\* The mapping with the value of one of its keys replaced.
WithValue(map, key, value) == D(DictSet(map.v, key, value))

\* The output of the call that differs from the one made only in the
\* before and after values of `key`.
OutputWith(key, before_value, after_value) ==
  TextOf(compare_values(WithValue(args.before, key, before_value),
                        WithValue(args.after, key, after_value),
                        args.before_sensitive, args.after_sensitive,
                        args.after_unknown, args.replace_paths, 1,
                        <<>>).out)

\* A key that is sensitive on both sides and whose before and after values
\* are non-null and different from each other.
IsChangedSecret(key) ==
  /\ DictHas(args.before, key)
  /\ DictHas(args.after, key)
  /\ SensitiveAt(args.before_sensitive, <<S(key)>>)
  /\ SensitiveAt(args.after_sensitive, <<S(key)>>)
  /\ DictGet(args.before, key).t # "null"
  /\ DictGet(args.after, key).t # "null"
  /\ ~SameJson(DictGet(args.before, key), DictGet(args.after, key))

\* C30: noninterference for sensitive values: two calls of compare_values
\* whose inputs differ only in the before or the after value of a key that
\* is sensitive on both sides, the two values being non-null and different
\* from each other in both calls, return the same output.
C30_SensitiveValuesDoNotInterfere ==
  (Compared /\ args.before.t = "dict" /\ args.after.t = "dict") =>
    \A key \in UnionKeys :
       IsChangedSecret(key)
       => \A before_value \in SecretValues, after_value \in SecretValues :
             ~SameJson(before_value, after_value)
             => OutputWith(key, before_value, after_value) = result

====
